---- MODULE Spec2Model ----
(***************************************************************************)
(* Model of the hammer configuration database (hammer_config/config_src.py)*)
(*                                                                         *)
(* Python strings are TLA+ strings, Python lists are sequences, Python     *)
(* dicts are insertion-ordered mappings.  Every Python value is a record   *)
(* with the same fields, so that values of different Python types can be   *)
(* compared.  A failing call (a raised exception) is a result record with  *)
(* ok = FALSE and the kind of the exception.                               *)
(***************************************************************************)
EXTENDS Integers, Sequences, FiniteSets, TLC

(***************************************************************************)
(* Python values                                                           *)
(***************************************************************************)
\* t: the Python type; s: str payload; n: int payload; l: list payload;
\* id: identity of a list object that is shared between several places of a
\* dict (0: the object is referenced from one place only).
StrV(x) == [t |-> "str", s |-> x, n |-> 0, l |-> <<>>, id |-> 0]
IntV(x) == [t |-> "int", s |-> "", n |-> x, l |-> <<>>, id |-> 0]
ListV(x) == [t |-> "list", s |-> "", n |-> 0, l |-> x, id |-> 0]
ListVId(x, i) == [t |-> "list", s |-> "", n |-> 0, l |-> x, id |-> i]
NoneV == [t |-> "null", s |-> "", n |-> 0, l |-> <<>>, id |-> 0]

IsStr(v) == v.t = "str"
IsList(v) == v.t = "list"
IsInt(v) == v.t = "int"
IsNull(v) == v.t = "null"

\* The value as a caller sees it: the contents, without object identities.
RECURSIVE View(_)
View(v) == IF IsList(v) THEN ListV([i \in 1..Len(v.l) |-> View(v.l[i])]) ELSE v

\* F(v): the value v is computed once and named by F's parameter, as a local
\* variable of the code is.
With(v, F(_)) == F(v)

(***************************************************************************)
(* Python strings                                                          *)
(***************************************************************************)
StartsWith(s, p) == Len(s) >= Len(p) /\ SubSeq(s, 1, Len(p)) = p
EndsWith(s, p) == Len(s) >= Len(p) /\ SubSeq(s, Len(s) - Len(p) + 1, Len(s)) = p
DropPrefix(s, n) == SubSeq(s, n + 1, Len(s))
DropSuffix(s, n) == SubSeq(s, 1, Len(s) - n)
CharAt(s, i) == SubSeq(s, i, i)

\* The characters of the model's strings in code point order.
Ascii == "!$'-./0123456789:ABCDEFGHIJKLMNOPQRSTUVWXYZ[]_abcdefghijklmnopqrstuvwxyz{}"
CharRank(c) == IF \E i \in 1..Len(Ascii) : CharAt(Ascii, i) = c
               THEN CHOOSE i \in 1..Len(Ascii) : CharAt(Ascii, i) = c
               ELSE 0

\* Python's str < str: lexicographic by code point.
RECURSIVE StrLess(_, _)
StrLess(a, b) ==
    IF Len(b) = 0 THEN FALSE
    ELSE IF Len(a) = 0 THEN TRUE
    ELSE IF CharAt(a, 1) = CharAt(b, 1) THEN StrLess(DropPrefix(a, 1), DropPrefix(b, 1))
    ELSE CharRank(CharAt(a, 1)) < CharRank(CharAt(b, 1))

\* sorted(list of str): insertion sort, stable.
RECURSIVE InsertSorted(_, _)
InsertSorted(sq, x) ==
    IF sq = <<>> THEN <<x>>
    ELSE IF StrLess(x, Head(sq)) THEN <<x>> \o sq
    ELSE <<Head(sq)>> \o InsertSorted(Tail(sq), x)

RECURSIVE sorted(_)
sorted(sq) == IF sq = <<>> THEN <<>> ELSE InsertSorted(sorted(SubSeq(sq, 1, Len(sq) - 1)), sq[Len(sq)])

\* str(int) for the non-negative integers of the model
PyStrInt(n) == ToString(n)

(***************************************************************************)
(* Python dicts (insertion ordered)                                        *)
(***************************************************************************)
\* ks: the keys in insertion order; m: the mapping.
EmptyDict == [ks |-> <<>>, m |-> <<>>]
Has(d, k) == k \in DOMAIN d.m
Get(d, k) == d.m[k]
Put(d, k, v) == [ks |-> IF Has(d, k) THEN d.ks ELSE Append(d.ks, k),
                 m |-> [x \in (DOMAIN d.m) \cup {k} |-> IF x = k THEN v ELSE d.m[x]]]
Del(d, k) == [ks |-> SelectSeq(d.ks, LAMBDA x : x # k),
              m |-> [x \in (DOMAIN d.m) \ {k} |-> d.m[x]]]

\* dict.update(e): e's items in e's order
RECURSIVE UpdateFrom(_, _, _)
UpdateFrom(d, e, i) == IF i > Len(e.ks) THEN d
                       ELSE UpdateFrom(Put(d, e.ks[i], e.m[e.ks[i]]), e, i + 1)
Update(d, e) == UpdateFrom(d, e, 1)

\* A dict literal from a sequence of <<key, value>> pairs.
RECURSIVE MkDictFrom(_, _)
MkDictFrom(pairs, i) == IF i = 0 THEN EmptyDict
                        ELSE Put(MkDictFrom(pairs, i - 1), pairs[i][1], pairs[i][2])
MkDict(pairs) == MkDictFrom(pairs, Len(pairs))

\* Python's dict == dict: same keys and equal values, whatever the order.
DictView(d) == [k \in DOMAIN d.m |-> View(d.m[k])]
DictEq(d, e) == DictView(d) = DictView(e)

(***************************************************************************)
(* Results of calls that can raise                                         *)
(***************************************************************************)
\* d: the dict the call returns or has changed; v, w: other returned values.
\* msg: the message of the exception, where the code formats one.
Ok(d) == [ok |-> TRUE, err |-> "", msg |-> "", d |-> d, v |-> NoneV, w |-> ""]
OkV(d, v, w) == [ok |-> TRUE, err |-> "", msg |-> "", d |-> d, v |-> v, w |-> w]
Err(kind) == [ok |-> FALSE, err |-> kind, msg |-> "", d |-> EmptyDict, v |-> NoneV, w |-> ""]
ErrMsg(kind, msg) == [ok |-> FALSE, err |-> kind, msg |-> msg, d |-> EmptyDict, v |-> NoneV, w |-> ""]

(***************************************************************************)
(* Variable expansion: __VARIABLE_EXPANSION_REGEX = r'\${([a-zA-Z_\-\d.]+)}' *)
(***************************************************************************)
NameChars == { CharAt("abcdefghijklmnopqrstuvwxyzABCDEFGHIJKLMNOPQRSTUVWXYZ_-0123456789.", i) : i \in 1..65 }

\* The first index at or after i of s that holds no name character.
RECURSIVE NameRunEnd(_, _)
NameRunEnd(s, i) == IF i <= Len(s) /\ CharAt(s, i) \in NameChars THEN NameRunEnd(s, i + 1) ELSE i

\* The regex matches at i: "${", one or more name characters, "}".
MatchesAt(s, i) == /\ i + 3 <= Len(s)
                   /\ SubSeq(s, i, i + 1) = "${"
                   /\ NameRunEnd(s, i + 2) > i + 2
                   /\ NameRunEnd(s, i + 2) <= Len(s)
                   /\ CharAt(s, NameRunEnd(s, i + 2)) = "}"

\* The non-overlapping matches of the regex in s, left to right, with the
\* text between them: a sequence of [ref, s], ref = TRUE for group(1) of a
\* match and FALSE for unmatched text.
RECURSIVE Segments(_, _, _)
Segments(s, i, lit) ==
    IF i > Len(s) THEN (IF lit = "" THEN <<>> ELSE <<[ref |-> FALSE, s |-> lit]>>)
    ELSE IF MatchesAt(s, i)
         THEN (IF lit = "" THEN <<>> ELSE <<[ref |-> FALSE, s |-> lit]>>)
              \o <<[ref |-> TRUE, s |-> SubSeq(s, i + 2, NameRunEnd(s, i + 2) - 1)]>>
              \o Segments(s, NameRunEnd(s, i + 2) + 1, "")
         ELSE Segments(s, i + 1, lit \o CharAt(s, i))

RECURSIVE Concat(_)
Concat(sq) == IF sq = <<>> THEN "" ELSE Head(sq) \o Concat(Tail(sq))

\* subst_str(input_str, lambda key: config_dict[key]): the replacement of a
\* match is config_dict[name]; re.sub takes None as the empty string and
\* raises TypeError for any other non-str replacement.
SubstLookupOk(config_dict, segs) ==
    \A i \in 1..Len(segs) : segs[i].ref => Has(config_dict, segs[i].s)
SubstTypesOk(config_dict, segs) ==
    \A i \in 1..Len(segs) : segs[i].ref =>
        (IsStr(Get(config_dict, segs[i].s)) \/ IsNull(Get(config_dict, segs[i].s)))
SubstText(config_dict, segs) ==
    Concat([i \in 1..Len(segs) |->
              IF segs[i].ref
              THEN (IF IsStr(Get(config_dict, segs[i].s)) THEN Get(config_dict, segs[i].s).s ELSE "")
              ELSE segs[i].s])

\* subst_str on one Python value: [ok, err, s]
subst_str(config_dict, v) ==
    IF ~IsStr(v) THEN [ok |-> FALSE, err |-> "invalid-value", s |-> ""]
    ELSE With(Segments(v.s, 1, ""), LAMBDA segs :
         IF ~SubstLookupOk(config_dict, segs) THEN [ok |-> FALSE, err |-> "missing-target", s |-> ""]
         ELSE IF ~SubstTypesOk(config_dict, segs) THEN [ok |-> FALSE, err |-> "invalid-value", s |-> ""]
         ELSE [ok |-> TRUE, err |-> "", s |-> SubstText(config_dict, segs)])

(***************************************************************************)
(* Shared list objects                                                     *)
(***************************************************************************)
Max(a, b) == IF a >= b THEN a ELSE b

RECURSIVE MaxIdSeq(_, _)
RECURSIVE MaxId(_)
MaxId(v) == IF IsList(v) THEN Max(v.id, MaxIdSeq(v.l, Len(v.l))) ELSE 0
MaxIdSeq(l, i) == IF i = 0 THEN 0 ELSE Max(MaxId(l[i]), MaxIdSeq(l, i - 1))

RECURSIVE MaxIdKeys(_, _)
MaxIdKeys(d, i) == IF i = 0 THEN 0 ELSE Max(MaxId(d.m[d.ks[i]]), MaxIdKeys(d, i - 1))
FreshId(d) == MaxIdKeys(d, Len(d.ks)) + 1

\* Every occurrence of the list object i in v, replaced by its new contents.
RECURSIVE ReplaceObj(_, _, _)
ReplaceObj(v, i, new) ==
    IF ~IsList(v) THEN v
    ELSE IF v.id = i THEN new
    ELSE ListVId([j \in 1..Len(v.l) |-> ReplaceObj(v.l[j], i, new)], v.id)

ReplaceObjInDict(d, i, new) == [ks |-> d.ks, m |-> [k \in DOMAIN d.m |-> ReplaceObj(d.m[k], i, new)]]

\* The object held at key k becomes referenced from a second place: it gets
\* an identity unless it has one.
ShareKey(d, k) ==
    IF IsList(Get(d, k)) /\ Get(d, k).id = 0
    THEN Put(d, k, ListVId(Get(d, k).l, FreshId(d)))
    ELSE d

(***************************************************************************)
(* Meta directives: get_meta_directives()                                  *)
(***************************************************************************)
Directives == {"append", "crossappend", "crossappendref", "subst", "crossref",
               "transclude", "json2list", "prependlocal"}

\* Results of target_settings: [ok, err, names]
TOk(names) == [ok |-> TRUE, err |-> "", names |-> names]
TErr(kind) == [ok |-> FALSE, err |-> kind, names |-> <<>>]
\* Results of rename_target: [ok, err, none, value, meta]; none: it returned None
ROk(value, meta) == [ok |-> TRUE, err |-> "", none |-> FALSE, value |-> value, meta |-> meta]
RNone == [ok |-> TRUE, err |-> "", none |-> TRUE, value |-> NoneV, meta |-> ""]
RErr(kind) == [ok |-> FALSE, err |-> kind, none |-> FALSE, value |-> NoneV, meta |-> ""]

\* ---- append ----
append_action(config_dict, key, value) ==
    LET d1 == IF Has(config_dict, key) THEN config_dict ELSE Put(config_dict, key, ListV(<<>>))
        cur == Get(d1, key)
    IN IF ~IsList(cur) THEN Err("invalid-value")
       ELSE IF ~IsList(value) THEN Err("invalid-value")
       ELSE IF cur.id = 0 THEN Ok(Put(d1, key, ListV(cur.l \o value.l)))
       ELSE Ok(ReplaceObjInDict(d1, cur.id, ListVId(cur.l \o value.l, cur.id)))

append_targets(key, value) == TOk(<<key>>)

append_rename(key, value, target_setting, replacement_setting) ==
    ROk(ListV(<<StrV(replacement_setting), value>>), "crossappend")

\* ---- crossappend ----
crossappend_decode_ok(value) ==
    /\ IsList(value)
    /\ Len(value.l) = 2
    /\ IsStr(value.l[1])
    /\ IsList(value.l[2])

\* a + b of Python
PyAdd(a, b) ==
    IF IsList(a) /\ IsList(b) THEN [ok |-> TRUE, v |-> ListV(a.l \o b.l)]
    ELSE IF IsStr(a) /\ IsStr(b) THEN [ok |-> TRUE, v |-> StrV(a.s \o b.s)]
    ELSE IF IsInt(a) /\ IsInt(b) THEN [ok |-> TRUE, v |-> IntV(a.n + b.n)]
    ELSE [ok |-> FALSE, v |-> NoneV]

crossappend_action(config_dict, key, value) ==
    IF ~crossappend_decode_ok(value) THEN Err("invalid-value")
    ELSE IF ~Has(config_dict, value.l[1].s) THEN Err("missing-target")
    ELSE LET sum == PyAdd(Get(config_dict, value.l[1].s), value.l[2]) IN
         IF ~sum.ok THEN Err("invalid-value") ELSE Ok(Put(config_dict, key, sum.v))

crossappend_targets(key, value) ==
    IF ~crossappend_decode_ok(value) THEN TErr("invalid-value") ELSE TOk(<<value.l[1].s>>)

crossappend_rename(key, value, target_setting, replacement_setting) ==
    IF ~crossappend_decode_ok(value) THEN RErr("invalid-value")
    ELSE ROk(ListV(<<StrV(IF value.l[1].s = target_setting THEN replacement_setting ELSE value.l[1].s),
                     value.l[2]>>), "crossappend")

\* ---- crossappendref ----
crossappendref_decode_ok(value) ==
    /\ IsList(value)
    /\ Len(value.l) = 2
    /\ IsStr(value.l[1])
    /\ IsStr(value.l[2])

crossappendref_action(config_dict, key, value) ==
    IF ~crossappendref_decode_ok(value) THEN Err("invalid-value")
    ELSE IF ~Has(config_dict, value.l[1].s) \/ ~Has(config_dict, value.l[2].s) THEN Err("missing-target")
    ELSE LET sum == PyAdd(Get(config_dict, value.l[1].s), Get(config_dict, value.l[2].s)) IN
         IF ~sum.ok THEN Err("invalid-value") ELSE Ok(Put(config_dict, key, sum.v))

crossappendref_targets(key, value) ==
    IF ~crossappendref_decode_ok(value) THEN TErr("invalid-value")
    ELSE TOk(<<value.l[1].s, value.l[2].s>>)

crossappendref_rename(key, value, target_setting, replacement_setting) ==
    IF ~crossappendref_decode_ok(value) THEN RErr("invalid-value")
    ELSE ROk(ListV(<<StrV(IF value.l[1].s = target_setting THEN replacement_setting ELSE value.l[1].s),
                     StrV(IF value.l[2].s = target_setting THEN replacement_setting ELSE value.l[2].s)>>),
             "crossappendref")

\* ---- subst ----
\* perform_subst on a list: element by element, the first failure is raised.
RECURSIVE SubstList(_, _, _)
SubstList(config_dict, l, i) ==
    IF i > Len(l) THEN [ok |-> TRUE, err |-> "", l |-> <<>>]
    ELSE With(subst_str(config_dict, l[i]), LAMBDA r :
         IF ~r.ok THEN [ok |-> FALSE, err |-> r.err, l |-> <<>>]
         ELSE With(SubstList(config_dict, l, i + 1), LAMBDA rest :
              IF ~rest.ok THEN rest
              ELSE [ok |-> TRUE, err |-> "", l |-> <<StrV(r.s)>> \o rest.l]))

subst_action(config_dict, key, value) ==
    IF IsList(value)
    THEN With(SubstList(config_dict, value.l, 1), LAMBDA r :
         IF ~r.ok THEN Err(r.err) ELSE Ok(Put(config_dict, key, ListV(r.l))))
    ELSE With(subst_str(config_dict, value), LAMBDA r :
         IF ~r.ok THEN Err(r.err) ELSE Ok(Put(config_dict, key, StrV(r.s))))

RefNames(segs) == LET refs == SelectSeq(segs, LAMBDA g : g.ref) IN [i \in 1..Len(refs) |-> refs[i].s]

subst_targets(key, value) ==
    IF ~IsStr(value) THEN TErr("invalid-value") ELSE TOk(RefNames(Segments(value.s, 1, "")))

InSeq(x, sq) == \E i \in 1..Len(sq) : sq[i] = x

subst_rename(key, value, target_setting, replacement_setting) ==
    IF ~IsStr(value) THEN RErr("invalid-value")
    ELSE With(Segments(value.s, 1, ""), LAMBDA segs :
         IF ~InSeq(target_setting, RefNames(segs)) THEN RNone
         ELSE ROk(StrV(Concat([i \in 1..Len(segs) |->
                         IF segs[i].ref /\ segs[i].s = target_setting
                         THEN "${" \o replacement_setting \o "}"
                         ELSE segs[i].s])), "subst"))

\* ---- crossref ----
\* list(map(check_and_get, value)): the first failure is raised; the objects
\* of the referenced settings become elements of the new list.
RECURSIVE CrossrefList(_, _, _)
CrossrefList(config_dict, l, i) ==
    IF i > Len(l) THEN OkV(config_dict, ListV(<<>>), "")
    ELSE IF ~IsStr(l[i]) THEN Err("invalid-value")
    ELSE IF ~Has(config_dict, l[i].s) THEN Err("missing-target")
    ELSE With(ShareKey(config_dict, l[i].s), LAMBDA d1 :
         With(CrossrefList(d1, l, i + 1), LAMBDA rest :
            IF ~rest.ok THEN rest
            ELSE OkV(rest.d, ListV(<<Get(d1, l[i].s)>> \o rest.v.l), "")))

crossref_action(config_dict, key, value) ==
    IF IsStr(value)
    THEN IF ~Has(config_dict, value.s) THEN Err("missing-target")
         ELSE With(IF value.s = key THEN config_dict ELSE ShareKey(config_dict, value.s), LAMBDA d1 :
              Ok(Put(d1, key, Get(d1, value.s))))
    ELSE IF IsList(value)
    THEN With(CrossrefList(config_dict, value.l, 1), LAMBDA r :
         IF ~r.ok THEN r ELSE Ok(Put(r.d, key, r.v)))
    ELSE Err("invalid-value")

AllStr(l) == \A i \in 1..Len(l) : IsStr(l[i])

crossref_targets(key, value) ==
    IF IsStr(value) THEN TOk(<<value.s>>)
    ELSE IF IsList(value) /\ AllStr(value.l) THEN TOk([i \in 1..Len(value.l) |-> value.l[i].s])
    ELSE TErr("invalid-value")

crossref_rename(key, value, target_setting, replacement_setting) ==
    IF IsStr(value)
    THEN ROk(ListV(<<StrV(IF value.s = target_setting THEN replacement_setting ELSE value.s)>>), "crossref")
    ELSE IF IsList(value) /\ AllStr(value.l)
    THEN ROk(ListV([i \in 1..Len(value.l) |->
                 StrV(IF value.l[i].s = target_setting THEN replacement_setting ELSE value.l[i].s)]),
             "crossref")
    ELSE RErr("invalid-value")

\* ---- transclude ----
\* The files that exist, and what open(path).read() returns for each.
FilePaths == {"/tmp/cfg/motd"}
FileContents(path) == "hello ${base}"

transclude_action(config_dict, key, value) ==
    IF ~IsStr(value) THEN Err("invalid-value")
    ELSE IF value.s \notin FilePaths THEN Err("io")
    ELSE Ok(Put(config_dict, key, StrV(FileContents(value.s))))

transclude_rename(key, value, target_setting, replacement_setting) == ROk(value, "transclude")

\* ---- json2list ----
BoolV(b) == [t |-> "bool", s |-> "", n |-> IF b THEN 1 ELSE 0, l |-> <<>>, id |-> 0]
DictV == [t |-> "dict", s |-> "", n |-> 0, l |-> <<>>, id |-> 0]
Digits == "0123456789"
IsDigit(c) == \E i \in 1..10 : CharAt(Digits, i) = c
DigitVal(c) == (CHOOSE i \in 1..10 : CharAt(Digits, i) = c) - 1

RECURSIVE SkipSpaces(_, _)
SkipSpaces(s, i) == IF i <= Len(s) /\ CharAt(s, i) = " " THEN SkipSpaces(s, i + 1) ELSE i

\* The index of the next double quote at or after i, or 0.
RECURSIVE FindQuote(_, _)
FindQuote(s, i) == IF i > Len(s) THEN 0 ELSE IF CharAt(s, i) = "\"" THEN i ELSE FindQuote(s, i + 1)

RECURSIVE DigitRunEnd(_, _)
DigitRunEnd(s, i) == IF i <= Len(s) /\ IsDigit(CharAt(s, i)) THEN DigitRunEnd(s, i + 1) ELSE i

RECURSIVE ParseNat(_)
ParseNat(s) == IF s = "" THEN 0 ELSE 10 * ParseNat(DropSuffix(s, 1)) + DigitVal(CharAt(s, Len(s)))

JFail == [ok |-> FALSE, v |-> NoneV, i |-> 0]
JOk(v, i) == [ok |-> TRUE, v |-> v, i |-> i]

\* json.loads on the JSON the model's strings hold: arrays, strings without
\* escapes, non-negative integers, true, false, null and the empty object.
\* JsonValue(s, i): the value that starts at i and the index after it.
RECURSIVE JsonValue(_, _)
RECURSIVE JsonElems(_, _, _)
JsonValue(s, i0) ==
    LET i == SkipSpaces(s, i0) IN
    IF i > Len(s) THEN JFail
    ELSE IF CharAt(s, i) = "\""
         THEN (IF FindQuote(s, i + 1) = 0 THEN JFail
               ELSE JOk(StrV(SubSeq(s, i + 1, FindQuote(s, i + 1) - 1)), FindQuote(s, i + 1) + 1))
    ELSE IF IsDigit(CharAt(s, i))
         THEN JOk(IntV(ParseNat(SubSeq(s, i, DigitRunEnd(s, i) - 1))), DigitRunEnd(s, i))
    ELSE IF StartsWith(DropPrefix(s, i - 1), "null") THEN JOk(NoneV, i + 4)
    ELSE IF StartsWith(DropPrefix(s, i - 1), "true") THEN JOk(BoolV(TRUE), i + 4)
    ELSE IF StartsWith(DropPrefix(s, i - 1), "false") THEN JOk(BoolV(FALSE), i + 5)
    ELSE IF StartsWith(DropPrefix(s, i - 1), "{}") THEN JOk(DictV, i + 2)
    ELSE IF CharAt(s, i) = "["
         THEN (IF SkipSpaces(s, i + 1) <= Len(s) /\ CharAt(s, SkipSpaces(s, i + 1)) = "]"
               THEN JOk(ListV(<<>>), SkipSpaces(s, i + 1) + 1)
               ELSE JsonElems(s, i + 1, <<>>))
    ELSE JFail
JsonElems(s, i, acc) ==
    With(JsonValue(s, i), LAMBDA e :
    IF ~e.ok THEN JFail
    ELSE With(SkipSpaces(s, e.i), LAMBDA j :
         IF j > Len(s) THEN JFail
         ELSE IF CharAt(s, j) = "," THEN JsonElems(s, j + 1, Append(acc, e.v))
         ELSE IF CharAt(s, j) = "]" THEN JOk(ListV(Append(acc, e.v)), j + 1)
         ELSE JFail))

json_loads(s) ==
    With(JsonValue(s, 1), LAMBDA r :
    IF r.ok /\ SkipSpaces(s, r.i) = Len(s) + 1 THEN r ELSE JFail)

json2list_action(config_dict, key, value) ==
    IF ~IsStr(value) THEN Err("invalid-value")
    ELSE With(json_loads(value.s), LAMBDA parsed :
         IF ~parsed.ok THEN Err("invalid-value")
         ELSE IF ~IsList(parsed.v) THEN Err("invalid-value")
         ELSE Ok(Put(config_dict, key, parsed.v)))

json2list_rename(key, value, target_setting, replacement_setting) == ROk(value, "json2list")

\* ---- prependlocal ----
\* repr() and str() of a Python value
RECURSIVE PyRepr(_)
RECURSIVE PyReprElems(_, _)
PyRepr(v) ==
    IF IsStr(v) THEN "'" \o v.s \o "'"
    ELSE IF IsInt(v) THEN PyStrInt(v.n)
    ELSE IF IsNull(v) THEN "None"
    ELSE IF v.t = "bool" THEN (IF v.n = 1 THEN "True" ELSE "False")
    ELSE IF v.t = "dict" THEN "{}"
    ELSE "[" \o PyReprElems(v.l, 1) \o "]"
PyReprElems(l, i) ==
    IF i > Len(l) THEN ""
    ELSE PyRepr(l[i]) \o (IF i < Len(l) THEN ", " ELSE "") \o PyReprElems(l, i + 1)
PyStr(v) == IF IsStr(v) THEN v.s ELSE PyRepr(v)

\* os.path.join(a, b) on POSIX
PathJoin(a, b) ==
    IF StartsWith(b, "/") THEN b
    ELSE IF a = "" \/ EndsWith(a, "/") THEN a \o b
    ELSE a \o "/" \o b

prependlocal_action(config_dict, key, value, meta_path) ==
    IF ~IsStr(meta_path) THEN Err("invalid-value")
    ELSE Ok(Put(config_dict, key, StrV(PathJoin(meta_path.s, PyStr(value)))))

prependlocal_rename(key, value, target_setting, replacement_setting) == ROk(value, "prependlocal")

\* ---- the registry ----
\* get_meta_directives()[meta_type].action(config_dict, key, value, params)
DirectiveAction(meta_type, config_dict, key, value, meta_path) ==
    CASE meta_type = "append" -> append_action(config_dict, key, value)
      [] meta_type = "crossappend" -> crossappend_action(config_dict, key, value)
      [] meta_type = "crossappendref" -> crossappendref_action(config_dict, key, value)
      [] meta_type = "subst" -> subst_action(config_dict, key, value)
      [] meta_type = "crossref" -> crossref_action(config_dict, key, value)
      [] meta_type = "transclude" -> transclude_action(config_dict, key, value)
      [] meta_type = "json2list" -> json2list_action(config_dict, key, value)
      [] meta_type = "prependlocal" -> prependlocal_action(config_dict, key, value, meta_path)

\* get_meta_directives()[meta_type].target_settings(key, value)
DirectiveTargets(meta_type, key, value) ==
    CASE meta_type = "append" -> append_targets(key, value)
      [] meta_type = "crossappend" -> crossappend_targets(key, value)
      [] meta_type = "crossappendref" -> crossappendref_targets(key, value)
      [] meta_type = "subst" -> subst_targets(key, value)
      [] meta_type = "crossref" -> crossref_targets(key, value)
      [] meta_type \in {"transclude", "json2list", "prependlocal"} -> TOk(<<>>)

\* get_meta_directives()[meta_type].rename_target(key, value, target, replacement)
DirectiveRename(meta_type, key, value, target_setting, replacement_setting) ==
    CASE meta_type = "append" -> append_rename(key, value, target_setting, replacement_setting)
      [] meta_type = "crossappend" -> crossappend_rename(key, value, target_setting, replacement_setting)
      [] meta_type = "crossappendref" -> crossappendref_rename(key, value, target_setting, replacement_setting)
      [] meta_type = "subst" -> subst_rename(key, value, target_setting, replacement_setting)
      [] meta_type = "crossref" -> crossref_rename(key, value, target_setting, replacement_setting)
      [] meta_type = "transclude" -> transclude_rename(key, value, target_setting, replacement_setting)
      [] meta_type = "json2list" -> json2list_rename(key, value, target_setting, replacement_setting)
      [] meta_type = "prependlocal" -> prependlocal_rename(key, value, target_setting, replacement_setting)

(***************************************************************************)
(* hammer_utils.deepdict                                                   *)
(***************************************************************************)
\* A deep copy of a dict: equal contents, and the copy's objects are shared
\* among its own places as the original's are.  The list objects of the
\* caller, which the caller can still reach after the call, carry the
\* identities from CallerIds up; the copy of such an object is a new object
\* that nothing else refers to.
CallerIds == 1000

RECURSIVE CopyValue(_)
CopyValue(v) ==
    IF ~IsList(v) THEN v
    ELSE ListVId([j \in 1..Len(v.l) |-> CopyValue(v.l[j])], IF v.id >= CallerIds THEN 0 ELSE v.id)

\* deepdict without the copy: the dict given, with the objects it refers to.
deepdict_same_objects(x) == x

deepdict(x) == [ks |-> x.ks, m |-> [k \in DOMAIN x.m |-> CopyValue(x.m[k])]]

(***************************************************************************)
(* _get_next_free_index                                                    *)
(***************************************************************************)
_CONFIG_PATH_KEY == "_config_path"
_NEXT_FREE_INDEX_KEY == "_next_free_index"

AllDigits(str) == str # "" /\ \A i \in 1..Len(str) : IsDigit(CharAt(str, i))

\* int(d[_NEXT_FREE_INDEX_KEY])
PyIntOk(v) == IsInt(v) \/ v.t = "bool" \/ (IsStr(v) /\ AllDigits(v.s))
PyInt(v) == IF IsStr(v) THEN ParseNat(v.s) ELSE v.n

\* Returns the index as v.n and the changed dict as d.
get_next_free_index(d) ==
    LET d1 == IF Has(d, _NEXT_FREE_INDEX_KEY) THEN d ELSE Put(d, _NEXT_FREE_INDEX_KEY, IntV(1)) IN
    IF ~PyIntOk(Get(d1, _NEXT_FREE_INDEX_KEY)) THEN Err("invalid-value")
    ELSE LET next_index == PyInt(Get(d1, _NEXT_FREE_INDEX_KEY)) IN
         OkV(Put(d1, _NEXT_FREE_INDEX_KEY, IntV(next_index + 1)), IntV(next_index), "")

(***************************************************************************)
(* update_and_expand_meta                                                  *)
(***************************************************************************)
\* The loop state: newdict, meta_dict, seen_lazy; ok = FALSE once it raised.
MState(nd, md, seen) == [ok |-> TRUE, err |-> "", msg |-> "", newdict |-> nd, meta_dict |-> md, seen_lazy |-> seen]
MErr(kind, msg) == [ok |-> FALSE, err |-> kind, msg |-> msg, newdict |-> EmptyDict, meta_dict |-> EmptyDict,
                    seen_lazy |-> FALSE]

\* Lines 453-502: a directive whose name starts with "lazy".
LazyDirective(st, setting, meta_key, meta_type) ==
    LET lazy_base_meta_type == DropPrefix(meta_type, 4)
        newdict == st.newdict
        meta_dict == st.meta_dict
    IN
    IF lazy_base_meta_type \notin Directives
    THEN MErr("invalid-directive",
              "The type of lazy meta variable " \o meta_key \o " is not supported (" \o meta_type \o ")")
    ELSE IF st.seen_lazy
    THEN MErr("invalid-directive", "Multiple lazy directives in a single directive array not supported yet")
    ELSE IF ~Has(meta_dict, setting) THEN MErr("key-error", setting)
    ELSE With(DirectiveTargets(lazy_base_meta_type, setting, Get(meta_dict, setting)), LAMBDA targets :
    IF ~targets.ok THEN MErr(targets.err, "")
    ELSE IF InSeq(setting, targets.names)
    THEN With(get_next_free_index(newdict), LAMBDA idx :
         IF ~idx.ok THEN MErr(idx.err, "")
         ELSE With(setting \o "_" \o PyStrInt(idx.v.n), LAMBDA new_base_setting :
              With(DirectiveRename(lazy_base_meta_type, setting, Get(meta_dict, setting),
                                   setting, new_base_setting), LAMBDA new_value_meta :
              IF ~new_value_meta.ok THEN MErr(new_value_meta.err, "")
              ELSE IF new_value_meta.none
              THEN MErr("rename-unsupported",
                        "Failed to rename lazy setting which depends on itself (" \o setting \o ")")
              ELSE IF ~Has(idx.d, setting) THEN MErr("key-error", setting)
              ELSE With(Put(Put(Put(EmptyDict, new_base_setting, Get(idx.d, setting)),
                                setting, new_value_meta.value),
                            setting \o "_meta", StrV("lazy" \o new_value_meta.meta)), LAMBDA u :
                   With(IF Has(idx.d, setting \o "_meta")
                        THEN Put(u, new_base_setting \o "_meta", Get(idx.d, setting \o "_meta"))
                        ELSE u, LAMBDA update_dict :
                   MState(Update(idx.d, update_dict), meta_dict, TRUE))))))
    ELSE With(Put(Put(EmptyDict, setting, Get(meta_dict, setting)),
                  setting \o "_meta", StrV(meta_type)), LAMBDA update_dict :
         MState(Update(newdict, update_dict), meta_dict, TRUE)))

\* EagerDirective without the test of line 504: an eager directive is
\* evaluated although a lazy one stands before it in the list.
EagerDirectiveAfterLazy(st, setting, meta_key, meta_type) ==
    IF meta_type \notin Directives
    THEN MErr("invalid-directive",
              "The type of meta variable " \o meta_key \o " is not supported (" \o meta_type \o ")")
    ELSE IF ~Has(st.meta_dict, setting) THEN MErr("key-error", setting)
    ELSE With(IF Has(st.meta_dict, _CONFIG_PATH_KEY) THEN Get(st.meta_dict, _CONFIG_PATH_KEY)
              ELSE StrV("unspecified"), LAMBDA meta_path :
         With(DirectiveAction(meta_type, st.newdict, setting, Get(st.meta_dict, setting), meta_path), LAMBDA r :
            IF ~r.ok THEN MErr(r.err, r.msg)
            ELSE With(ShareKey(r.d, setting), LAMBDA nd :
                 MState(nd, Put(st.meta_dict, setting, Get(nd, setting)), st.seen_lazy))))

\* EagerDirective without line 514: the next directive of the list is given
\* the provider's value again.
EagerDirectiveOriginalValue(st, setting, meta_key, meta_type) ==
    IF st.seen_lazy THEN MErr("invalid-directive", "Cannot use a non-lazy meta directive after a lazy one")
    ELSE IF meta_type \notin Directives
    THEN MErr("invalid-directive",
              "The type of meta variable " \o meta_key \o " is not supported (" \o meta_type \o ")")
    ELSE IF ~Has(st.meta_dict, setting) THEN MErr("key-error", setting)
    ELSE With(IF Has(st.meta_dict, _CONFIG_PATH_KEY) THEN Get(st.meta_dict, _CONFIG_PATH_KEY)
              ELSE StrV("unspecified"), LAMBDA meta_path :
         With(DirectiveAction(meta_type, st.newdict, setting, Get(st.meta_dict, setting), meta_path), LAMBDA r :
            IF ~r.ok THEN MErr(r.err, r.msg)
            ELSE With(ShareKey(r.d, setting), LAMBDA nd :
                 MState(nd, st.meta_dict, st.seen_lazy))))

\* Lines 503-514: a directive that is evaluated now.
EagerDirective(st, setting, meta_key, meta_type) ==
    IF st.seen_lazy THEN MErr("invalid-directive", "Cannot use a non-lazy meta directive after a lazy one")
    ELSE IF meta_type \notin Directives
    THEN MErr("invalid-directive",
              "The type of meta variable " \o meta_key \o " is not supported (" \o meta_type \o ")")
    ELSE IF ~Has(st.meta_dict, setting) THEN MErr("key-error", setting)
    ELSE With(IF Has(st.meta_dict, _CONFIG_PATH_KEY) THEN Get(st.meta_dict, _CONFIG_PATH_KEY)
              ELSE StrV("unspecified"), LAMBDA meta_path :
         With(DirectiveAction(meta_type, st.newdict, setting, Get(st.meta_dict, setting), meta_path), LAMBDA r :
            IF ~r.ok THEN MErr(r.err, r.msg)
            ELSE With(ShareKey(r.d, setting), LAMBDA nd :
                 MState(nd, Put(st.meta_dict, setting, Get(nd, setting)), st.seen_lazy))))

\* Lines 441-514: one element of the directive list.
ProcessDirective(st, setting, meta_key, meta_type) ==
    IF ~IsStr(meta_type) THEN MErr("invalid-directive", "meta_type was not a string: " \o PyRepr(meta_type))
    ELSE IF StartsWith(meta_type.s, "dynamic")
    THEN MErr("invalid-directive",
              "Found meta type " \o meta_type.s \o ". Dynamic meta directives were renamed to lazy meta directives after issue #134. Please change your metas from dynamic* to lazy*")
    ELSE IF StartsWith(meta_type.s, "lazy") THEN LazyDirective(st, setting, meta_key, meta_type.s)
    ELSE EagerDirective(st, setting, meta_key, meta_type.s)

RECURSIVE ProcessDirectives(_, _, _, _, _)
ProcessDirectives(st, setting, meta_key, meta_directives, i) ==
    IF ~st.ok \/ i > Len(meta_directives) THEN st
    ELSE ProcessDirectives(ProcessDirective(st, setting, meta_key, meta_directives[i]),
                           setting, meta_key, meta_directives, i + 1)

\* Lines 428-517: one meta key of the provider.
ProcessMetaKey(st, meta_key) ==
    IF ~Has(st.meta_dict, meta_key) THEN MErr("key-error", meta_key)
    ELSE LET setting == DropSuffix(meta_key, 5)
             meta_type_from_dict == Get(st.meta_dict, meta_key)
         IN
         IF ~IsStr(meta_type_from_dict) /\ ~IsList(meta_type_from_dict)
         THEN MErr("invalid-directive", "A meta directive must either be a string or a list of strings")
         ELSE With(IF IsStr(meta_type_from_dict) THEN <<meta_type_from_dict>>
                   ELSE meta_type_from_dict.l, LAMBDA meta_directives :
              With(ProcessDirectives(MState(st.newdict, st.meta_dict, FALSE),
                                     setting, meta_key, meta_directives, 1), LAMBDA st1 :
                 IF ~st1.ok THEN st1
                 ELSE IF ~Has(Del(st1.meta_dict, meta_key), setting) THEN MErr("key-error", setting)
                 ELSE MState(st1.newdict, Del(Del(st1.meta_dict, meta_key), setting), FALSE)))

RECURSIVE ProcessMetaKeys(_, _, _)
ProcessMetaKeys(st, meta_keys, i) ==
    IF ~st.ok \/ i > Len(meta_keys) THEN st
    ELSE ProcessMetaKeys(ProcessMetaKey(st, meta_keys[i]), meta_keys, i + 1)

update_and_expand_meta(config_dict, meta_dict) ==
    LET newdict == deepdict(config_dict)
        meta_copy == deepdict(meta_dict)
        meta_keys == SelectSeq(meta_copy.ks, LAMBDA k : EndsWith(k, "_meta"))
    IN With(ProcessMetaKeys(MState(newdict, meta_copy, FALSE), meta_keys, 1), LAMBDA st :
       IF ~st.ok THEN ErrMsg(st.err, st.msg)
       ELSE Ok(Update(st.newdict, deepdict(st.meta_dict))))

(***************************************************************************)
(* hammer_utils.topological_sort                                           *)
(***************************************************************************)
\* A graph maps a node to [out, inc]: the nodes that depend on it and the
\* nodes it depends on, one entry per edge.
RECURSIVE RemoveOne(_, _)
RemoveOne(sq, x) == IF sq = <<>> THEN <<>>
                    ELSE IF Head(sq) = x THEN Tail(sq)
                    ELSE <<Head(sq)>> \o RemoveOne(Tail(sq), x)

\* The edges current_node -> neighbours[i..] are removed; a neighbour left
\* without incoming edges joins the queue.  Returns [graph, queue].
RECURSIVE VisitNeighbours(_, _, _, _, _)
VisitNeighbours(graph, queue, current_node, neighbours, i) ==
    IF i > Len(neighbours) THEN [graph |-> graph, queue |-> queue]
    ELSE LET m == neighbours[i]
             inc == RemoveOne(Get(graph, m).inc, current_node)
             g1 == Put(graph, m, [out |-> Get(graph, m).out, inc |-> inc])
         IN VisitNeighbours(g1, IF inc = <<>> THEN Append(queue, m) ELSE queue,
                            current_node, neighbours, i + 1)

\* Kahn's algorithm with a first-in first-out queue that starts as the
\* starting nodes in the order given.
RECURSIVE KahnLoop(_, _, _)
KahnLoop(graph, queue, output) ==
    IF queue = <<>> THEN output
    ELSE With(VisitNeighbours(graph, Tail(queue), Head(queue), Get(graph, Head(queue)).out, 1), LAMBDA r :
         KahnLoop(r.graph, r.queue, Append(output, Head(queue))))

topological_sort(graph, starting_nodes) == KahnLoop(graph, starting_nodes, <<>>)

(***************************************************************************)
(* combine_configs                                                         *)
(***************************************************************************)
\* reduce(update_and_expand_meta, configs, {}): the first failure is raised.
RECURSIVE FoldConfigs(_, _, _)
FoldConfigs(acc, configs, i) ==
    IF ~acc.ok \/ i > Len(configs) THEN acc
    ELSE FoldConfigs(update_and_expand_meta(acc.d, configs[i]), configs, i + 1)

\* The state of the loop of lines 740-773.
LState(ec, lm, g) == [ok |-> TRUE, err |-> "", msg |-> "", expanded_config |-> ec, lazy_metas |-> lm, graph |-> g]
LErr(kind, msg) == [ok |-> FALSE, err |-> kind, msg |-> msg, expanded_config |-> EmptyDict,
                    lazy_metas |-> EmptyDict, graph |-> EmptyDict]

GraphNode(graph, n) == IF Has(graph, n) THEN graph ELSE Put(graph, n, [out |-> <<>>, inc |-> <<>>])

\* AddEdges with every edge recorded backwards: setting -> target.
RECURSIVE AddEdgesReversed(_, _, _, _, _)
AddEdgesReversed(graph, setting, targets, expanded_config_orig, i) ==
    IF i > Len(targets) THEN graph
    ELSE IF Has(expanded_config_orig, targets[i] \o "_meta")
    THEN With(GraphNode(graph, targets[i]), LAMBDA g1 :
         With(Put(g1, targets[i], [out |-> Get(g1, targets[i]).out,
                                   inc |-> Append(Get(g1, targets[i]).inc, setting)]), LAMBDA g2 :
         With(Put(g2, setting, [out |-> Append(Get(g2, setting).out, targets[i]),
                                inc |-> Get(g2, setting).inc]), LAMBDA g3 :
         AddEdgesReversed(g3, setting, targets, expanded_config_orig, i + 1))))
    ELSE AddEdgesReversed(graph, setting, targets, expanded_config_orig, i + 1)

\* Lines 758-769: the edges target -> setting for the targets that are lazy.
RECURSIVE AddEdges(_, _, _, _, _)
AddEdges(graph, setting, targets, expanded_config_orig, i) ==
    IF i > Len(targets) THEN graph
    ELSE IF Has(expanded_config_orig, targets[i] \o "_meta")
    THEN With(GraphNode(graph, targets[i]), LAMBDA g1 :
         With(Put(g1, targets[i], [out |-> Append(Get(g1, targets[i]).out, setting),
                                   inc |-> Get(g1, targets[i]).inc]), LAMBDA g2 :
         With(Put(g2, setting, [out |-> Get(g2, setting).out,
                                inc |-> Append(Get(g2, setting).inc, targets[i])]), LAMBDA g3 :
         AddEdges(g3, setting, targets, expanded_config_orig, i + 1))))
    ELSE AddEdges(graph, setting, targets, expanded_config_orig, i + 1)

\* Lines 740-773: one meta key left after the eager fold.
CollectLazy(st, meta_key, expanded_config_orig) ==
    LET setting == DropSuffix(meta_key, 5) IN
    IF ~Has(st.expanded_config, meta_key) THEN LErr("key-error", meta_key)
    ELSE LET lazy_meta_type == Get(st.expanded_config, meta_key) IN
    IF ~IsStr(lazy_meta_type) THEN LErr("invalid-value", "")
    ELSE IF ~StartsWith(lazy_meta_type.s, "lazy") THEN LErr("assertion", "Should have only lazy metas left now")
    ELSE IF ~Has(st.expanded_config, setting) THEN LErr("key-error", setting)
    ELSE LET meta_type == DropPrefix(lazy_meta_type.s, 4)
             lm == Put(Put(st.lazy_metas, meta_key, StrV(meta_type)), setting, Get(st.expanded_config, setting))
             g1 == GraphNode(st.graph, setting)
         IN
         IF meta_type \notin Directives THEN LErr("key-error", meta_type)
         ELSE With(DirectiveTargets(meta_type, setting, Get(st.expanded_config, setting)), LAMBDA targets :
              IF ~targets.ok THEN LErr(targets.err, "")
              ELSE LState(Del(Del(st.expanded_config, meta_key), setting), lm,
                          AddEdges(g1, setting, targets.names, expanded_config_orig, 1)))

RECURSIVE CollectAllLazy(_, _, _, _)
CollectAllLazy(st, meta_keys, expanded_config_orig, i) ==
    IF ~st.ok \/ i > Len(meta_keys) THEN st
    ELSE CollectAllLazy(CollectLazy(st, meta_keys[i], expanded_config_orig), meta_keys, expanded_config_orig, i + 1)

\* Lines 776-781: the nodes without incoming edges, sorted.
StartingNodes(graph) == sorted(SelectSeq(graph.ks, LAMBDA n : Get(graph, n).inc = <<>>))

\* Lines 789-794
combine_meta(config_dict, meta_setting, lazy_metas) ==
    update_and_expand_meta(config_dict,
        Put(Put(EmptyDict, meta_setting, Get(lazy_metas, meta_setting)),
            meta_setting \o "_meta", Get(lazy_metas, meta_setting \o "_meta")))

\* reduce(combine_meta, settings_ordered, expanded_config)
RECURSIVE FoldLazy(_, _, _, _)
FoldLazy(acc, settings_ordered, lazy_metas, i) ==
    IF ~acc.ok \/ i > Len(settings_ordered) THEN acc
    ELSE FoldLazy(combine_meta(acc.d, settings_ordered[i], lazy_metas), settings_ordered, lazy_metas, i + 1)

internal_keys == <<_CONFIG_PATH_KEY, _NEXT_FREE_INDEX_KEY>>

\* RemoveInternalKeys with the loop left after its first key.
RemoveFirstInternalKey(d) == IF Has(d, internal_keys[1]) THEN Del(d, internal_keys[1]) ELSE d

\* Lines 800-803
RemoveInternalKeys(d) ==
    LET d1 == IF Has(d, internal_keys[1]) THEN Del(d, internal_keys[1]) ELSE d
    IN IF Has(d1, internal_keys[2]) THEN Del(d1, internal_keys[2]) ELSE d1

\* Lines 729-773: the lazy directives and their graph, from the folded dict.
LazyPhase(expanded_config) ==
    CollectAllLazy(LState(expanded_config, EmptyDict, EmptyDict),
                   SelectSeq(expanded_config.ks, LAMBDA k : EndsWith(k, "_meta")),
                   deepdict(expanded_config), 1)

\* Lines 775-798: the lazy directives evaluated in topological order.
EvaluateLazy(st) ==
    IF Len(st.graph.ks) > 0
    THEN With(StartingNodes(st.graph), LAMBDA starting_nodes :
         IF starting_nodes = <<>>
         THEN ErrMsg("lazy-cycle", "There appears to be a loop of lazy settings")
         ELSE FoldLazy(Ok(st.expanded_config), topological_sort(st.graph, starting_nodes),
                       st.lazy_metas, 1))
    ELSE Ok(deepdict(st.expanded_config))

combine_configs(configs) ==
    With(FoldConfigs(Ok(EmptyDict), configs, 1), LAMBDA expanded_config_reduce :
    IF ~expanded_config_reduce.ok THEN expanded_config_reduce
    ELSE With(LazyPhase(deepdict(expanded_config_reduce.d)), LAMBDA st :
         IF ~st.ok THEN ErrMsg(st.err, st.msg)
         ELSE With(EvaluateLazy(st), LAMBDA final_dict :
              IF ~final_dict.ok THEN final_dict
              ELSE Ok(RemoveInternalKeys(final_dict.d)))))

(***************************************************************************)
(* json.dumps(config, sort_keys=True, indent=4, separators=(',', ': '))    *)
(***************************************************************************)
RECURSIVE Spaces(_)
Spaces(n) == IF n = 0 THEN "" ELSE " " \o Spaces(n - 1)

\* A str as a JSON string: the quote and the backslash are escaped.
RECURSIVE JsonEscape(_)
JsonEscape(str) ==
    IF str = "" THEN ""
    ELSE (IF CharAt(str, 1) = "\"" THEN "\\\""
          ELSE IF CharAt(str, 1) = "\\" THEN "\\\\"
          ELSE CharAt(str, 1)) \o JsonEscape(DropPrefix(str, 1))

\* The value at nesting depth `level`.
RECURSIVE JsonDumpValue(_, _)
RECURSIVE JsonDumpElems(_, _, _)
JsonDumpValue(v, level) ==
    IF IsStr(v) THEN "\"" \o JsonEscape(v.s) \o "\""
    ELSE IF IsInt(v) THEN PyStrInt(v.n)
    ELSE IF IsNull(v) THEN "null"
    ELSE IF v.t = "bool" THEN (IF v.n = 1 THEN "true" ELSE "false")
    ELSE IF v.t = "dict" THEN "{}"
    ELSE IF v.l = <<>> THEN "[]"
    ELSE "[\n" \o JsonDumpElems(v.l, 1, level + 1) \o "\n" \o Spaces(4 * level) \o "]"
JsonDumpElems(l, i, level) ==
    IF i > Len(l) THEN ""
    ELSE Spaces(4 * level) \o JsonDumpValue(l[i], level)
         \o (IF i < Len(l) THEN ",\n" ELSE "") \o JsonDumpElems(l, i + 1, level)

RECURSIVE JsonDumpItems(_, _, _)
JsonDumpItems(d, keys, i) ==
    IF i > Len(keys) THEN ""
    ELSE Spaces(4) \o "\"" \o JsonEscape(keys[i]) \o "\": " \o JsonDumpValue(Get(d, keys[i]), 1)
         \o (IF i < Len(keys) THEN ",\n" ELSE "") \o JsonDumpItems(d, keys, i + 1)

json_dumps(d) ==
    IF d.ks = <<>> THEN "{}"
    ELSE "{\n" \o JsonDumpItems(d, sorted(d.ks), 1) \o "\n}"

(***************************************************************************)
(* Provider dictionaries the specifications draw their inputs from         *)
(***************************************************************************)
StrList(sq) == ListV([i \in 1..Len(sq) |-> StrV(sq[i])])

PBase == MkDict(<< <<"_config_path", StrV("/tmp/cfg")>>, <<"a", StrList(<<"1">>)>>, <<"n", StrV("v1")>> >>)
PAppend == MkDict(<< <<"a", StrList(<<"2">>)>>, <<"a_meta", StrV("append")>> >>)
PPlainN == MkDict(<< <<"n", StrV("v2")>> >>)
PLazyK == MkDict(<< <<"k", StrV("${n}")>>, <<"k_meta", StrV("lazysubst")>> >>)
PSelfK == MkDict(<< <<"k", StrV("${k}_y")>>, <<"k_meta", StrV("lazysubst")>> >>)
PSelfK2 == MkDict(<< <<"k", StrV("${k}${n}")>>, <<"k_meta", StrV("lazysubst")>> >>)
PCycle == MkDict(<< <<"x", StrV("${y}")>>, <<"x_meta", StrV("lazysubst")>>,
                    <<"y", StrV("${x}")>>, <<"y_meta", StrV("lazysubst")>> >>)
PLazyZ == MkDict(<< <<"z", StrV("${k}!")>>, <<"z_meta", StrV("lazysubst")>> >>)
PGreet == MkDict(<< <<"base", StrV("hi")>>, <<"greet", StrV("${base}!")>>, <<"greet_meta", StrV("subst")>> >>)
PCrossK == MkDict(<< <<"k", StrV("n")>>, <<"k_meta", StrV("lazycrossref")>> >>)
PPlainK == MkDict(<< <<"k", StrV("a")>> >>)
PAlias == MkDict(<< <<"b", StrV("a")>>, <<"b_meta", StrV("crossref")>> >>)
PAppend2 == MkDict(<< <<"a", StrList(<<"x">>)>>, <<"a_meta", StrV("append")>>,
                      <<"b", StrList(<<"y">>)>>, <<"b_meta", StrV("append")>> >>)
PCrossAppendRef == MkDict(<< <<"a", StrList(<<"1">>)>>, <<"b", StrList(<<"2", "3">>)>>,
                             <<"c", StrList(<<"a", "b">>)>>, <<"c_meta", StrV("crossappendref")>> >>)

PAliasAppend == MkDict(<< <<"a", StrList(<<"x">>)>>, <<"a_meta", StrV("append")>>,
                          <<"b", StrV("a")>>, <<"b_meta", StrList(<<"crossref", "append">>)>> >>)

\* The providers of the resolution specification.
Pool == {PBase, PAppend, PPlainN, PLazyK, PSelfK, PSelfK2, PCycle, PLazyZ, PGreet, PCrossK, PPlainK,
         PAlias, PAppend2, PCrossAppendRef, PAliasAppend}

\* The longest list of providers that is resolved.
MaxConfigs == 3

(***************************************************************************)
(* State                                                                   *)
(***************************************************************************)
VARIABLES
    \* HammerDatabase: the six file layers, the runtime dict, the cache
    builtins, core, tools, technology, environment, project, _runtime,
    config_cache, config_cache_dirty,
    \* what the last call returned (or raised) and the number of mutator calls
    ret, calls,
    \* one run of combine_configs, step by step: its argument, its position
    \* (pc: fold, lazy, done, failed; pos: the next element), the working
    \* dict and the one before the last step, the lazy directives taken out
    \* of it, the dict they were taken from, the evaluation order, the result
    configs, pc, pos, work, prev, lazy_metas, expanded_config_orig, settings_ordered, result

dbvars == <<builtins, core, tools, technology, environment, project, _runtime,
            config_cache, config_cache_dirty, ret, calls>>
rvars == <<configs, pc, pos, work, prev, lazy_metas, expanded_config_orig, settings_ordered, result>>
vars == <<dbvars, rvars>>

(***************************************************************************)
(* combine_configs, one step at a time                                     *)
(***************************************************************************)
ResolveIdle ==
    /\ configs = <<>>
    /\ pc = "idle"
    /\ pos = 1
    /\ work = EmptyDict
    /\ prev = EmptyDict
    /\ lazy_metas = EmptyDict
    /\ expanded_config_orig = EmptyDict
    /\ settings_ordered = <<>>
    /\ result = Ok(EmptyDict)

ResolveStart(cs) ==
    /\ configs = cs
    /\ pc = "fold"
    /\ pos = 1
    /\ work = EmptyDict
    /\ prev = EmptyDict
    /\ lazy_metas = EmptyDict
    /\ expanded_config_orig = EmptyDict
    /\ settings_ordered = <<>>
    /\ result = Ok(EmptyDict)

\* Line 725: one step of reduce(update_and_expand_meta, configs, {}).
FoldStep ==
    /\ pc = "fold"
    /\ pos <= Len(configs)
    /\ \E r \in {update_and_expand_meta(work, configs[pos])} :
       IF r.ok
       THEN /\ work' = r.d
            /\ prev' = work
            /\ pos' = pos + 1
            /\ UNCHANGED <<pc, result>>
       ELSE /\ pc' = "failed"
            /\ result' = r
            /\ UNCHANGED <<work, prev, pos>>
    /\ UNCHANGED <<configs, lazy_metas, expanded_config_orig, settings_ordered, dbvars>>

\* Lines 726-787: the lazy directives are taken out and ordered.
CollectStep ==
    /\ pc = "fold"
    /\ pos > Len(configs)
    /\ \E st \in {LazyPhase(deepdict(work))} :
       IF ~st.ok
       THEN /\ pc' = "failed"
            /\ result' = ErrMsg(st.err, st.msg)
            /\ UNCHANGED <<work, prev, pos, lazy_metas, expanded_config_orig, settings_ordered>>
       ELSE IF Len(st.graph.ks) > 0 /\ StartingNodes(st.graph) = <<>>
       THEN /\ pc' = "failed"
            /\ result' = ErrMsg("lazy-cycle", "There appears to be a loop of lazy settings")
            /\ UNCHANGED <<work, prev, pos, lazy_metas, expanded_config_orig, settings_ordered>>
       ELSE /\ pc' = "lazy"
            /\ pos' = 1
            /\ prev' = work
            /\ work' = st.expanded_config
            /\ lazy_metas' = st.lazy_metas
            /\ expanded_config_orig' = deepdict(work)
            /\ settings_ordered' = IF Len(st.graph.ks) > 0
                                   THEN topological_sort(st.graph, StartingNodes(st.graph))
                                   ELSE <<>>
            /\ UNCHANGED result
    /\ UNCHANGED <<configs, dbvars>>

\* Line 796: one step of reduce(combine_meta, settings_ordered, expanded_config).
LazyStep ==
    /\ pc = "lazy"
    /\ pos <= Len(settings_ordered)
    /\ \E r \in {combine_meta(work, settings_ordered[pos], lazy_metas)} :
       IF r.ok
       THEN /\ work' = r.d
            /\ prev' = work
            /\ pos' = pos + 1
            /\ UNCHANGED <<pc, result>>
       ELSE /\ pc' = "failed"
            /\ result' = r
            /\ UNCHANGED <<work, prev, pos>>
    /\ UNCHANGED <<configs, lazy_metas, expanded_config_orig, settings_ordered, dbvars>>

\* Lines 800-805: the internal keys are removed and the dict is returned.
FinishStep ==
    /\ pc = "lazy"
    /\ pos > Len(settings_ordered)
    /\ pc' = "done"
    /\ result' = Ok(RemoveInternalKeys(work))
    /\ UNCHANGED <<configs, pos, work, prev, lazy_metas, expanded_config_orig, settings_ordered, dbvars>>

(***************************************************************************)
(* HammerDatabase                                                          *)
(***************************************************************************)
\* The lists the layers are updated with, the keys and values of
\* set_setting, the keys that are read and the null sentinels of get_setting.
BuiltinsInputs == {<<PBase>>}
CoreInputs == {<<PCrossK>>}
ToolsInputs == {<<PAppend>>}
TechnologyInputs == {<<PCycle>>}
EnvironmentInputs == {<<PPlainN>>}
ProjectInputs == {<<PLazyK>>, <<PLazyK, PSelfK>>, <<>>}
SetKeys == {"k", "n"}
SetValues == {StrV("a"), NoneV}
ReadKeys == {"k", "q"}
NullValues == {NoneV, StrV("dflt")}

\* The most mutator calls (update_*, set_setting) made on the database.
MaxCalls == 3

\* What a call returned: the operation and its key, whether it returned
\* (ok) or raised (err), and the returned dict, value, JSON text or boolean.
Ret(op, key, ok, err, dict, val, json, has) ==
    [op |-> op, key |-> key, ok |-> ok, err |-> err, dict |-> dict, val |-> val, json |-> json, has |-> has]
RetNone(op, key) == Ret(op, key, TRUE, "", EmptyDict, NoneV, "", FALSE)
RetRaise(op, key, err) == Ret(op, key, FALSE, err, EmptyDict, NoneV, "", FALSE)

\* Lines 544-554: __init__
DbInit ==
    /\ builtins = <<>>
    /\ core = <<>>
    /\ tools = <<>>
    /\ technology = <<>>
    /\ environment = <<>>
    /\ project = <<>>
    /\ _runtime = EmptyDict
    /\ config_cache = EmptyDict
    /\ config_cache_dirty = FALSE
    /\ ret = RetNone("__init__", "")
    /\ calls = 0

\* Lines 556-558: the runtime property
runtime == <<_runtime>>

\* Lines 571-572: the argument of combine_configs
AllConfigs == <<EmptyDict>> \o builtins \o core \o tools \o technology \o environment \o project \o runtime

\* GetConfig with the dirty flag cleared although combine_configs raised.
GetConfigClearsDirty ==
    IF config_cache_dirty
    THEN With(combine_configs(AllConfigs), LAMBDA r :
         IF r.ok THEN [ok |-> TRUE, err |-> "", cache |-> r.d, dirty |-> FALSE]
         ELSE [ok |-> FALSE, err |-> r.err, cache |-> config_cache, dirty |-> FALSE])
    ELSE [ok |-> TRUE, err |-> "", cache |-> config_cache, dirty |-> config_cache_dirty]

\* Lines 565-574: get_config as a function of the state: whether it returns,
\* the cache and the dirty flag it leaves.
GetConfig ==
    IF config_cache_dirty
    THEN With(combine_configs(AllConfigs), LAMBDA r :
         IF r.ok THEN [ok |-> TRUE, err |-> "", cache |-> r.d, dirty |-> FALSE]
         ELSE [ok |-> FALSE, err |-> r.err, cache |-> config_cache, dirty |-> config_cache_dirty])
    ELSE [ok |-> TRUE, err |-> "", cache |-> config_cache, dirty |-> config_cache_dirty]

Layers == <<builtins, core, tools, technology, environment, project, _runtime>>

\* get_config returning the mapping that was stored before it resolved.
get_config_returns_old_cache ==
    /\ \E g \in {GetConfig} :
       /\ config_cache' = g.cache
       /\ config_cache_dirty' = g.dirty
       /\ ret' = IF g.ok THEN Ret("get_config", "", TRUE, "", config_cache, NoneV, "", FALSE)
                 ELSE RetRaise("get_config", "", g.err)
    /\ UNCHANGED <<Layers, calls, rvars>>

\* Lines 565-574
get_config ==
    /\ \E g \in {GetConfig} :
       /\ config_cache' = g.cache
       /\ config_cache_dirty' = g.dirty
       /\ ret' = IF g.ok THEN Ret("get_config", "", TRUE, "", g.cache, NoneV, "", FALSE)
                 ELSE RetRaise("get_config", "", g.err)
    /\ UNCHANGED <<Layers, calls, rvars>>

\* Lines 576-579
get_database_json ==
    /\ \E g \in {GetConfig} :
       /\ config_cache' = g.cache
       /\ config_cache_dirty' = g.dirty
       /\ ret' = IF g.ok THEN Ret("get_database_json", "", TRUE, "", EmptyDict, NoneV, json_dumps(g.cache), FALSE)
                 ELSE RetRaise("get_database_json", "", g.err)
    /\ UNCHANGED <<Layers, calls, rvars>>

\* get_setting without the test of line 605: a null value is returned as it is.
get_setting_returns_null(key, nullvalue) ==
    /\ \E g \in {GetConfig} :
       /\ config_cache' = g.cache
       /\ config_cache_dirty' = g.dirty
       /\ ret' = IF ~g.ok THEN RetRaise("get_setting", key, g.err)
                 ELSE IF ~Has(g.cache, key) THEN RetRaise("get_setting", key, "missing-key")
                 ELSE Ret("get_setting", key, TRUE, "", EmptyDict, Get(g.cache, key), "", FALSE)
    /\ UNCHANGED <<Layers, calls, rvars>>

\* Lines 593-605
get_setting(key, nullvalue) ==
    /\ \E g \in {GetConfig} :
       /\ config_cache' = g.cache
       /\ config_cache_dirty' = g.dirty
       /\ ret' = IF ~g.ok THEN RetRaise("get_setting", key, g.err)
                 ELSE IF ~Has(g.cache, key) THEN RetRaise("get_setting", key, "missing-key")
                 ELSE Ret("get_setting", key, TRUE, "", EmptyDict,
                          IF IsNull(Get(g.cache, key)) THEN nullvalue ELSE Get(g.cache, key), "", FALSE)
    /\ UNCHANGED <<Layers, calls, rvars>>

\* Lines 617-624
has_setting(key) ==
    /\ \E g \in {GetConfig} :
       /\ config_cache' = g.cache
       /\ config_cache_dirty' = g.dirty
       /\ ret' = IF ~g.ok THEN RetRaise("has_setting", key, g.err)
                 ELSE Ret("has_setting", key, TRUE, "", EmptyDict, NoneV, "", Has(g.cache, key))
    /\ UNCHANGED <<Layers, calls, rvars>>

\* set_setting without line 615: the cache is not marked dirty.
set_setting_keeps_cache(key, value) ==
    /\ calls < MaxCalls
    /\ _runtime' = Put(_runtime, key, value)
    /\ ret' = RetNone("set_setting", key)
    /\ calls' = calls + 1
    /\ UNCHANGED <<builtins, core, tools, technology, environment, project, config_cache,
                   config_cache_dirty, rvars>>

\* Lines 607-615
set_setting(key, value) ==
    /\ calls < MaxCalls
    /\ _runtime' = Put(_runtime, key, value)
    /\ config_cache_dirty' = TRUE
    /\ ret' = RetNone("set_setting", key)
    /\ calls' = calls + 1
    /\ UNCHANGED <<builtins, core, tools, technology, environment, project, config_cache, rvars>>

\* Lines 626-631
update_core(core_config) ==
    /\ calls < MaxCalls
    /\ core' = core_config
    /\ config_cache_dirty' = TRUE
    /\ ret' = RetNone("update_core", "")
    /\ calls' = calls + 1
    /\ UNCHANGED <<builtins, tools, technology, environment, project, _runtime, config_cache, rvars>>

\* Lines 633-638
update_tools(tools_config) ==
    /\ calls < MaxCalls
    /\ tools' = tools_config
    /\ config_cache_dirty' = TRUE
    /\ ret' = RetNone("update_tools", "")
    /\ calls' = calls + 1
    /\ UNCHANGED <<builtins, core, technology, environment, project, _runtime, config_cache, rvars>>

\* Lines 640-645
update_technology(technology_config) ==
    /\ calls < MaxCalls
    /\ technology' = technology_config
    /\ config_cache_dirty' = TRUE
    /\ ret' = RetNone("update_technology", "")
    /\ calls' = calls + 1
    /\ UNCHANGED <<builtins, core, tools, environment, project, _runtime, config_cache, rvars>>

\* Lines 647-652
update_environment(environment_config) ==
    /\ calls < MaxCalls
    /\ environment' = environment_config
    /\ config_cache_dirty' = TRUE
    /\ ret' = RetNone("update_environment", "")
    /\ calls' = calls + 1
    /\ UNCHANGED <<builtins, core, tools, technology, project, _runtime, config_cache, rvars>>

\* update_project adding its argument to the list the layer holds.
update_project_extends(project_config) ==
    /\ calls < MaxCalls
    /\ project' = project \o project_config
    /\ config_cache_dirty' = TRUE
    /\ ret' = RetNone("update_project", "")
    /\ calls' = calls + 1
    /\ UNCHANGED <<builtins, core, tools, technology, environment, _runtime, config_cache, rvars>>

\* Lines 654-659
update_project(project_config) ==
    /\ calls < MaxCalls
    /\ project' = project_config
    /\ config_cache_dirty' = TRUE
    /\ ret' = RetNone("update_project", "")
    /\ calls' = calls + 1
    /\ UNCHANGED <<builtins, core, tools, technology, environment, _runtime, config_cache, rvars>>

\* Lines 661-666
update_builtins(builtins_config) ==
    /\ calls < MaxCalls
    /\ builtins' = builtins_config
    /\ config_cache_dirty' = TRUE
    /\ ret' = RetNone("update_builtins", "")
    /\ calls' = calls + 1
    /\ UNCHANGED <<core, tools, technology, environment, project, _runtime, config_cache, rvars>>

(***************************************************************************)
(* Specifications                                                          *)
(***************************************************************************)
\* The database under any sequence of calls.
Init == DbInit /\ ResolveIdle

Next ==
    \/ get_config
    \/ get_database_json
    \/ \E key \in ReadKeys, nullvalue \in NullValues : get_setting(key, nullvalue)
    \/ \E key \in ReadKeys : has_setting(key)
    \/ \E key \in SetKeys, value \in SetValues : set_setting(key, value)
    \/ \E l \in BuiltinsInputs : update_builtins(l)
    \/ \E l \in CoreInputs : update_core(l)
    \/ \E l \in ToolsInputs : update_tools(l)
    \/ \E l \in TechnologyInputs : update_technology(l)
    \/ \E l \in EnvironmentInputs : update_environment(l)
    \/ \E l \in ProjectInputs : update_project(l)

Spec == Init /\ [][Next]_vars

\* combine_configs on every list of at most MaxConfigs providers of Pool.
ConfigLists == UNION {[1..n -> Pool] : n \in 1..MaxConfigs}

InitResolve == DbInit /\ \E cs \in ConfigLists : ResolveStart(cs)

NextResolve == FoldStep \/ CollectStep \/ LazyStep \/ FinishStep

SpecResolve == InitResolve /\ [][NextResolve]_vars

\* The steps compute what combine_configs returns.
StepsAgree ==
    /\ pc = "done" => result = combine_configs(configs)
    /\ pc = "failed" => (~combine_configs(configs).ok /\ result.err = combine_configs(configs).err)

(***************************************************************************)
(* combine_configs on providers that exercise the directive rules          *)
(***************************************************************************)
PLocal == MkDict(<< <<"_config_path", StrV("/tmp/cfg")>>, <<"script", StrV("run.sh")>>,
                    <<"script_meta", StrV("prependlocal")>> >>)
PLazyLocal == MkDict(<< <<"_config_path", StrV("/tmp/cfg")>>, <<"tool", StrV("run.sh")>>,
                        <<"tool_meta", StrV("lazyprependlocal")>> >>)
PDynamic == MkDict(<< <<"dkey", StrV("${n}")>>, <<"dkey_meta", StrV("dynamicsubst")>> >>)
PDynList == MkDict(<< <<"dkey", StrV("${n}")>>, <<"dkey_meta", StrList(<<"subst", "dynamicsubst">>)>> >>)
PTwoLazy == MkDict(<< <<"k", StrV("${n}")>>, <<"k_meta", StrList(<<"lazysubst", "lazysubst">>)>> >>)
PEagerAfterLazy == MkDict(<< <<"k", StrV("${n}")>>, <<"k_meta", StrList(<<"lazysubst", "subst">>)>> >>)
PEagerThenLazy == MkDict(<< <<"k", StrV("[\"n\"]")>>, <<"k_meta", StrList(<<"json2list", "lazycrossref">>)>> >>)
PMetaOnly == MkDict(<< <<"n_meta", StrV("subst")>> >>)

DirectivePool == {PBase, PLocal, PLazyLocal, PDynamic, PDynList, PTwoLazy, PEagerAfterLazy,
                  PEagerThenLazy, PMetaOnly}

DirectiveLists == UNION {[1..n -> DirectivePool] : n \in 1..MaxConfigs}

InitDirectives == DbInit /\ \E cs \in DirectiveLists : ResolveStart(cs)

SpecDirectives == InitDirectives /\ [][NextResolve]_vars

(***************************************************************************)
(* unpack and reverse_unpack                                               *)
(***************************************************************************)
\* A dict as a value: its items, in insertion order, as records [k, v].
DictVal(d) == [t |-> "dict", s |-> "", n |-> 0,
               l |-> [i \in 1..Len(d.ks) |-> [k |-> d.ks[i], v |-> d.m[d.ks[i]]]], id |-> 0]
IsDict(v) == v.t = "dict"

\* The dict a dict value holds.
RECURSIVE ItemsDict(_, _)
ItemsDict(items, i) == IF i = 0 THEN EmptyDict
                       ELSE Put(ItemsDict(items, i - 1), items[i].k, items[i].v)
AsDict(v) == ItemsDict(v.l, Len(v.l))

\* One pass of the loop of lines 367-371 from item i on.
RECURSIVE UnpackFrom(_, _, _, _)
UnpackFrom(config_dict, prefix, i, output_dict) ==
    IF i > Len(config_dict.ks) THEN output_dict
    ELSE LET key == config_dict.ks[i]
             value == Get(config_dict, key)
             real_prefix == IF prefix = "" THEN "" ELSE prefix \o "."
         IN UnpackFrom(config_dict, prefix, i + 1,
                       IF IsDict(value)
                       THEN Update(output_dict, UnpackFrom(AsDict(value), real_prefix \o key, 1, EmptyDict))
                       ELSE Put(output_dict, real_prefix \o key, value))

unpack(config_dict, prefix) == UnpackFrom(config_dict, prefix, 1, EmptyDict)

\* SplitDots without the split: the key is its only piece.
KeyUnsplit(str, i, piece) == <<str>>

\* key.split("."): the pieces between the dots, empty pieces included.
RECURSIVE SplitDots(_, _, _)
SplitDots(str, i, piece) ==
    IF i > Len(str) THEN <<piece>>
    ELSE IF CharAt(str, i) = "." THEN <<piece>> \o SplitDots(str, i + 1, "")
    ELSE SplitDots(str, i + 1, piece \o CharAt(str, i))

\* Lines 386-392 and 400: value is stored under the last part in the dict
\* that get_subdict reaches through the other parts of root, creating the
\* dicts that are missing; reaching something that is not a dict raises
\* TypeError.
RECURSIVE SetInSubdict(_, _, _)
SetInSubdict(root, parts, value) ==
    IF Len(parts) = 1 THEN Ok(Put(root, parts[1], value))
    ELSE With(IF Has(root, parts[1]) THEN Get(root, parts[1]) ELSE DictV, LAMBDA child :
         IF ~IsDict(child) THEN Err("type-error")
         ELSE With(SetInSubdict(AsDict(child), Tail(parts), value), LAMBDA r :
              IF ~r.ok THEN r ELSE Ok(Put(root, parts[1], DictVal(r.d)))))

\* The loop of lines 394-400 from item i on.
RECURSIVE ReverseUnpackFrom(_, _, _)
ReverseUnpackFrom(input_dict, i, output) ==
    IF ~output.ok \/ i > Len(input_dict.ks) THEN output
    ELSE LET key == input_dict.ks[i]
             key_parts == SplitDots(key, 1, "")
         IN IF Len(key_parts) >= 1
            THEN ReverseUnpackFrom(input_dict, i + 1, SetInSubdict(output.d, key_parts, Get(input_dict, key)))
            ELSE ErrMsg("blank-key", "Cannot have blank key")

reverse_unpack(input_dict) == ReverseUnpackFrom(input_dict, 1, Ok(EmptyDict))

\* Inputs: nested mappings of depth at most two over keys with and without a
\* dot, and flat mappings whose keys include blank ones.
LeafValues == {IntV(1), StrV("x")}
InnerKeys == <<"c", "d">>
OuterKeys == <<"a", "b", "a.b">>
FlatKeys == <<"", "a", "a.b", "a..b", ".a", "a.">>

\* The dicts over any of the keys of keyseq, in its order, with values of vals.
DictsOver(keyseq, vals) ==
    {[ks |-> SelectSeq(keyseq, LAMBDA k : k \in DOMAIN f), m |-> f] :
        f \in UNION {[S -> vals] : S \in SUBSET {keyseq[i] : i \in 1..Len(keyseq)}}}

InnerDicts == DictsOver(InnerKeys, {IntV(1)})
NestedInputs == DictsOver(OuterKeys, LeafValues \cup {DictVal(d) : d \in InnerDicts})
FlatInputs == DictsOver(FlatKeys, {IntV(1)})

\* A run of the flattener: unpack on a nested input and reverse_unpack on
\* its output, or reverse_unpack on a flat input.
FlattenStart(x, flat) ==
    /\ configs = <<x>>
    /\ pc = IF flat THEN "flat" ELSE "nested"
    /\ pos = 1
    /\ work = IF flat THEN x ELSE EmptyDict
    /\ prev = EmptyDict
    /\ lazy_metas = EmptyDict
    /\ expanded_config_orig = EmptyDict
    /\ settings_ordered = <<>>
    /\ result = Ok(EmptyDict)

UnpackStep ==
    /\ pc = "nested"
    /\ work' = unpack(configs[1], "")
    /\ pc' = "flat"
    /\ UNCHANGED <<configs, pos, prev, lazy_metas, expanded_config_orig, settings_ordered, result, dbvars>>

ReverseUnpackStep ==
    /\ pc = "flat"
    /\ \E r \in {reverse_unpack(work)} :
         /\ result' = r
         /\ pc' = IF r.ok THEN "packed" ELSE "failed"
    /\ UNCHANGED <<configs, pos, work, prev, lazy_metas, expanded_config_orig, settings_ordered, dbvars>>

InitFlatten ==
    /\ DbInit
    /\ \/ \E x \in NestedInputs : FlattenStart(x, FALSE)
       \/ \E x \in FlatInputs : FlattenStart(x, TRUE)

NextFlatten == UnpackStep \/ ReverseUnpackStep

SpecFlatten == InitFlatten /\ [][NextFlatten]_vars

(***************************************************************************)
(* The database and a caller that changes what a read returned             *)
(***************************************************************************)
\* Line 574: get_config returns the cache dict itself.  The caller of the
\* last call, a get_config, stores a key of its own in the returned dict.
caller_adds_key ==
    /\ calls < MaxCalls
    /\ ret.op = "get_config"
    /\ ret.ok
    /\ config_cache' = Put(config_cache, "mine", StrV("x"))
    /\ ret' = RetNone("caller_adds_key", "")
    /\ calls' = calls + 1
    /\ UNCHANGED <<Layers, config_cache_dirty, rvars>>

\* Line 605: get_setting returns the value object held by the cache.  The
\* caller of the last call, a get_setting, appends to the returned list.
caller_appends ==
    /\ calls < MaxCalls
    /\ ret.op = "get_setting"
    /\ ret.ok
    /\ Has(config_cache, ret.key)
    /\ IsList(Get(config_cache, ret.key))
    /\ \E old \in {Get(config_cache, ret.key)} :
         config_cache' = IF old.id > 0
                         THEN ReplaceObjInDict(config_cache, old.id, ListVId(Append(old.l, StrV("x")), old.id))
                         ELSE Put(config_cache, ret.key, ListV(Append(old.l, StrV("x"))))
    /\ ret' = RetNone("caller_appends", ret.key)
    /\ calls' = calls + 1
    /\ UNCHANGED <<Layers, config_cache_dirty, rvars>>

NextCaller ==
    \/ Next
    \/ get_setting("a", NoneV)
    \/ caller_adds_key
    \/ caller_appends

SpecCaller == Init /\ [][NextCaller]_vars

(***************************************************************************)
(* rename_target of the directives that have dependencies                  *)
(***************************************************************************)
\* The directives whose target_settings can name a setting, with values
\* that each of them accepts.
RenameDirectives == {"append", "crossappend", "crossappendref", "subst", "crossref"}

RenameValues(meta_type) ==
    CASE meta_type = "append" -> {StrList(<<"2">>)}
      [] meta_type = "crossappend" -> {ListV(<<StrV("a"), StrList(<<"2">>)>>),
                                       ListV(<<StrV("k"), StrList(<<"2">>)>>)}
      [] meta_type = "crossappendref" -> {StrList(<<"a", "b">>), StrList(<<"k", "a">>), StrList(<<"k", "k">>)}
      [] meta_type = "subst" -> {StrV("${a}${b}"), StrV("${k}_y"), StrV("${k}${n}"), StrV("${a}")}
      [] meta_type = "crossref" -> {StrV("a"), StrV("k"), StrList(<<"a", "k">>), StrList(<<"k">>)}

\* The dictionaries the directive is applied to: one of strings, one of lists.
DStrings == MkDict(<< <<"a", StrV("A")>>, <<"b", StrV("B")>>, <<"k", StrV("K")>>, <<"n", StrV("N")>> >>)
DLists == MkDict(<< <<"a", StrList(<<"1">>)>>, <<"b", StrList(<<"3">>)>>, <<"k", StrList(<<"0">>)>>,
                    <<"n", StrList(<<"9">>)>> >>)
RenameDicts == {DStrings, DLists}
RenameKeys == {"k"}
RenameFrom == {"k", "a"}
RenameTo == {"k_1", "a_1"}

\* One run: the directive meta_type on the setting key with the given value
\* (kept as lazy_metas keeps them), renamed from one setting to another
\* (settings_ordered = <<key, from, to>>), on the dictionary configs[1].
RenameStart(meta_type, key, value, from, to, d) ==
    /\ configs = <<d>>
    /\ pc = "rename"
    /\ pos = 1
    /\ work = EmptyDict
    /\ prev = EmptyDict
    /\ lazy_metas = Put(Put(EmptyDict, key, value), key \o "_meta", StrV(meta_type))
    /\ expanded_config_orig = EmptyDict
    /\ settings_ordered = <<key, from, to>>
    /\ result = RNone

RenameKey == settings_ordered[1]
RenameMeta == Get(lazy_metas, RenameKey \o "_meta").s
RenameValue == Get(lazy_metas, RenameKey)

\* Lines 475-476: rename_target(setting, value, target, replacement)
RenameStep ==
    /\ pc = "rename"
    /\ \E r \in {DirectiveRename(RenameMeta, RenameKey, RenameValue, settings_ordered[2], settings_ordered[3])} :
         /\ result' = r
         /\ pc' = IF ~r.ok THEN "failed" ELSE IF r.none THEN "none" ELSE "renamed"
    /\ UNCHANGED <<configs, pos, work, prev, lazy_metas, expanded_config_orig, settings_ordered, dbvars>>

\* Lines 481-487 and 507-511: the replacement setting holds what the target
\* held, and the renamed directive is applied there (work); the directive as
\* it was is applied to the dictionary as it was (prev).
ApplyStep ==
    /\ pc = "renamed"
    /\ \E orig \in {DirectiveAction(RenameMeta, configs[1], RenameKey, RenameValue, StrV("unspecified"))} :
       \E d2 \in {IF Has(configs[1], settings_ordered[2])
                  THEN Put(configs[1], settings_ordered[3], Get(configs[1], settings_ordered[2]))
                  ELSE configs[1]} :
       \E ren \in {DirectiveAction(result.meta, d2, RenameKey, result.value, StrV("unspecified"))} :
         /\ pc' = IF ~orig.ok THEN "original-failed" ELSE IF ~ren.ok THEN "renamed-failed" ELSE "applied"
         /\ prev' = orig.d
         /\ work' = ren.d
    /\ UNCHANGED <<configs, pos, lazy_metas, expanded_config_orig, settings_ordered, result, dbvars>>

InitRename ==
    /\ DbInit
    /\ \E meta_type \in RenameDirectives, key \in RenameKeys, from \in RenameFrom, to \in RenameTo,
          d \in RenameDicts :
          \E value \in RenameValues(meta_type) : RenameStart(meta_type, key, value, from, to, d)

NextRename == RenameStep \/ ApplyStep

SpecRename == InitRename /\ [][NextRename]_vars

(***************************************************************************)
(* combine_configs on providers whose lists the caller keeps               *)
(***************************************************************************)
\* Providers whose list objects belong to the caller, a provider that
\* appends to a setting obtained by crossref, providers with lists of
\* several eager directives, and a provider with a setting named like the
\* first alias of k.
POwnedBase == MkDict(<< <<"a", ListVId(<<StrV("1")>>, CallerIds + 1)>>, <<"n", StrV("v1")>>,
                        <<"m", StrV("${n}")>> >>)
POwnedAppend == MkDict(<< <<"a", ListVId(<<StrV("2")>>, CallerIds + 2)>>, <<"a_meta", StrV("append")>> >>)
PAppendB == MkDict(<< <<"b", ListVId(<<StrV("y")>>, CallerIds + 3)>>, <<"b_meta", StrV("append")>> >>)
PTwoEager == MkDict(<< <<"k", StrV("[\"n\"]")>>, <<"k_meta", StrList(<<"json2list", "crossref">>)>> >>)
PSubstTwice == MkDict(<< <<"k", StrV("${m}")>>, <<"k_meta", StrList(<<"subst", "subst">>)>> >>)
PUserAlias == MkDict(<< <<"k", StrV("x")>>, <<"k_1", StrV("mine")>> >>)

FramePool == {POwnedBase, POwnedAppend, PAlias, PAppendB, PTwoEager, PSubstTwice, PUserAlias, PSelfK}

FrameLists == UNION {[1..n -> FramePool] : n \in 1..MaxConfigs}

InitFrame == DbInit /\ \E cs \in FrameLists : ResolveStart(cs)

SpecFrame == InitFrame /\ [][NextResolve]_vars

(***************************************************************************)
(* combine_configs with the lazy settings evaluated in any order that      *)
(* respects their dependencies                                             *)
(***************************************************************************)
PLazyPair == MkDict(<< <<"u", StrV("n")>>, <<"u_meta", StrV("lazycrossref")>>,
                       <<"w", StrV("${n}?")>>, <<"w_meta", StrV("lazysubst")>> >>)

LazyPool == {PBase, PLazyK, PSelfK, PLazyZ, PCrossK, PCycle, PLazyPair}

LazyLists == UNION {[1..n -> LazyPool] : n \in 1..MaxConfigs}

\* Lines 758-766: the setting has no target that is a lazy setting still to
\* be evaluated (settings_ordered holds the settings still to be evaluated).
Ready(setting) ==
    With(DirectiveTargets(Get(lazy_metas, setting \o "_meta").s, setting, Get(lazy_metas, setting)),
         LAMBDA targets :
            /\ targets.ok
            /\ \A i \in 1..Len(targets.names) :
                  ~( /\ Has(expanded_config_orig, targets.names[i] \o "_meta")
                     /\ InSeq(targets.names[i], settings_ordered) ))

\* Line 796 with another order: combine_meta on any setting that is ready.
LazyAnyStep ==
    /\ pc = "lazy"
    /\ \E i \in 1..Len(settings_ordered) :
         /\ Ready(settings_ordered[i])
         /\ \E r \in {combine_meta(work, settings_ordered[i], lazy_metas)} :
              IF r.ok
              THEN /\ work' = r.d
                   /\ prev' = work
                   /\ settings_ordered' = SubSeq(settings_ordered, 1, i - 1)
                                          \o SubSeq(settings_ordered, i + 1, Len(settings_ordered))
                   /\ UNCHANGED <<pc, result>>
              ELSE /\ pc' = "failed"
                   /\ result' = r
                   /\ UNCHANGED <<work, prev, settings_ordered>>
    /\ UNCHANGED <<configs, pos, lazy_metas, expanded_config_orig, dbvars>>

\* Lines 800-805, once every setting has been evaluated.
FinishAnyStep ==
    /\ pc = "lazy"
    /\ settings_ordered = <<>>
    /\ pc' = "done"
    /\ result' = Ok(RemoveInternalKeys(work))
    /\ UNCHANGED <<configs, pos, work, prev, lazy_metas, expanded_config_orig, settings_ordered, dbvars>>

InitAnyOrder == DbInit /\ \E cs \in LazyLists : ResolveStart(cs)

NextAnyOrder == FoldStep \/ CollectStep \/ LazyAnyStep \/ FinishAnyStep

SpecAnyOrder == InitAnyOrder /\ [][NextAnyOrder]_vars

(***************************************************************************)
(* Properties of the database and of the resolution                        *)
(***************************************************************************)
\* C1: cache coherence.  Whenever the dirty flag is false the cached mapping
\* equals the resolution of the layers in the order builtins, core, tools,
\* technology, environment, project, runtime, and what a successful read
\* (get_config, get_database_json, has_setting, get_setting) has just
\* returned is taken from that resolution.
C1_CacheCoherence ==
    With(combine_configs(AllConfigs), LAMBDA res :
      /\ ~config_cache_dirty => (res.ok /\ DictEq(config_cache, res.d))
      /\ (ret.ok /\ ret.op = "get_config") => (res.ok /\ DictEq(ret.dict, res.d))
      /\ (ret.ok /\ ret.op = "get_database_json") => (res.ok /\ ret.json = json_dumps(res.d))
      /\ (ret.ok /\ ret.op = "has_setting") => (res.ok /\ ret.has = Has(res.d, ret.key))
      /\ (ret.ok /\ ret.op = "get_setting") =>
            /\ res.ok
            /\ Has(res.d, ret.key)
            /\ IF IsNull(Get(res.d, ret.key)) THEN ret.val \in NullValues
               ELSE View(ret.val) = View(Get(res.d, ret.key)))

\* A get_setting that returned, after a layer update and a runtime write,
\* with the cache rebuilt.
C1_Witness ==
    /\ ret.op = "get_setting"
    /\ ret.ok
    /\ ~config_cache_dirty
    /\ builtins # <<>>
    /\ Has(_runtime, ret.key)

\* C2: precedence.  When the last provider that holds key k holds it as a
\* plain value (it has no k_meta), the resolved value of k is that value,
\* whatever the providers before it hold for k.
C2_PlainOverrideWins ==
    pc = "done" =>
      \A j \in 1..Len(configs) : \A k \in DOMAIN configs[j].m :
        ( /\ ~EndsWith(k, "_meta")
          /\ ~InSeq(k, internal_keys)
          /\ ~Has(configs[j], k \o "_meta")
          /\ \A i \in (j + 1)..Len(configs) : ~Has(configs[i], k) )
        => (Has(result.d, k) /\ View(Get(result.d, k)) = View(Get(configs[j], k)))

\* C3: a write is observed by the next read.  A get_setting(k) that returns
\* while the runtime dict holds a non-null value for k returns that value.
C3_WriteObserved ==
    (ret.op = "get_setting" /\ ret.ok /\ Has(_runtime, ret.key) /\ ~IsNull(Get(_runtime, ret.key)))
      => View(ret.val) = View(Get(_runtime, ret.key))

\* C4: a mapping returned by a successful resolution has no key that ends in
\* "_meta" and neither of the reserved keys _config_path, _next_free_index.
C4_NoInternalKeys ==
    pc = "done" =>
      /\ result.ok
      /\ \A k \in DOMAIN result.d.m :
            ~EndsWith(k, "_meta") /\ k \notin {_CONFIG_PATH_KEY, _NEXT_FREE_INDEX_KEY}
      /\ \A i \in 1..Len(result.d.ks) : result.d.ks[i] \in DOMAIN result.d.m

\* A resolution that returned after it held both reserved keys and lazy
\* directives in its working dict.
C4_Witness ==
    /\ pc = "done"
    /\ Has(work, _CONFIG_PATH_KEY)
    /\ Has(work, _NEXT_FREE_INDEX_KEY)
    /\ lazy_metas # EmptyDict

\* C5: lazy evaluation order respects dependencies.  Every dependency of an
\* ordered lazy setting that was itself lazy after the eager fold stands
\* earlier in the evaluation order, and when a lazy setting is about to be
\* evaluated its lazy dependencies have been written to the working dict.
C5_LazyOrder ==
    pc \in {"lazy", "done"} =>
      \A i \in 1..Len(settings_ordered) :
        With(DirectiveTargets(Get(lazy_metas, settings_ordered[i] \o "_meta").s, settings_ordered[i],
                              Get(lazy_metas, settings_ordered[i])), LAMBDA targets :
          /\ targets.ok
          /\ \A x \in 1..Len(targets.names) :
               Has(expanded_config_orig, targets.names[x] \o "_meta")
                 => /\ \E j \in 1..(i - 1) : settings_ordered[j] = targets.names[x]
                    /\ (pc = "lazy" /\ pos = i) => Has(work, targets.names[x]))

\* A resolution that returned after it evaluated a lazy setting whose
\* dependency was lazy too.
C5_Witness ==
    /\ pc = "done"
    /\ \E i \in 1..Len(settings_ordered) :
         With(DirectiveTargets(Get(lazy_metas, settings_ordered[i] \o "_meta").s, settings_ordered[i],
                               Get(lazy_metas, settings_ordered[i])), LAMBDA targets :
           \E x \in 1..Len(targets.names) : Has(expanded_config_orig, targets.names[x] \o "_meta"))

\* C6: a lazy directive uses the final values.  When the last provider that
\* holds s gives it a lazysubst template and s has been evaluated, the
\* resolved s is the template with every reference to another setting n
\* replaced by the resolved value of n (and every reference to s itself by
\* one earlier value e).
C6_LazyUsesFinalValues ==
    pc = "done" =>
      \A i \in 1..Len(configs) : \A s \in DOMAIN configs[i].m :
        ( /\ Has(configs[i], s \o "_meta")
          /\ Get(configs[i], s \o "_meta") = StrV("lazysubst")
          /\ IsStr(Get(configs[i], s))
          /\ \A j \in (i + 1)..Len(configs) : ~Has(configs[j], s)
          /\ InSeq(s, settings_ordered) )
        => \E e \in {""} \cup {work.m[k].s : k \in DOMAIN work.m} :
             With(subst_str(Put(result.d, s, StrV(e)), Get(configs[i], s)), LAMBDA r :
               r.ok /\ Has(result.d, s) /\ Get(result.d, s) = StrV(r.s))

\* C7: self-reference is broken by renaming.  When the last provider gives
\* s a lazysubst template that references s, and the providers before it
\* resolve s to an earlier value, resolution succeeds and the resolved s is
\* the template applied to that earlier value of s and the other settings.
C7_SelfReferenceRenamed ==
    (pc \in {"done", "failed"} /\ Len(configs) >= 2) =>
      \A s \in DOMAIN configs[Len(configs)].m :
        With(combine_configs(SubSeq(configs, 1, Len(configs) - 1)), LAMBDA earlier :
          ( /\ Has(configs[Len(configs)], s \o "_meta")
            /\ Get(configs[Len(configs)], s \o "_meta") = StrV("lazysubst")
            /\ IsStr(Get(configs[Len(configs)], s))
            /\ InSeq(s, RefNames(Segments(Get(configs[Len(configs)], s).s, 1, "")))
            /\ earlier.ok
            /\ Has(earlier.d, s)
            /\ subst_str(earlier.d, Get(configs[Len(configs)], s)).ok )
          => /\ pc = "done"
             /\ Has(result.d, s)
             /\ Get(result.d, s) = StrV(subst_str(earlier.d, Get(configs[Len(configs)], s)).s))

\* C8: mutual lazy references are detected.  When the folded configuration
\* holds the lazy substitutions x = "${y}" and y = "${x}", resolution fails
\* with the lazy-cycle error.
C8_CycleDetected ==
    With(FoldConfigs(Ok(EmptyDict), configs, 1), LAMBDA folded :
      ( /\ pc \in {"done", "failed"}
        /\ folded.ok
        /\ Has(folded.d, "x") /\ Has(folded.d, "x_meta")
        /\ Has(folded.d, "y") /\ Has(folded.d, "y_meta")
        /\ Get(folded.d, "x") = StrV("${y}") /\ Get(folded.d, "x_meta") = StrV("lazysubst")
        /\ Get(folded.d, "y") = StrV("${x}") /\ Get(folded.d, "y_meta") = StrV("lazysubst") )
      => (pc = "failed" /\ result.err = "lazy-cycle"))

\* C9: an eager directive reads the plain settings of its own provider.  The
\* single provider {base, greet, greet_meta: subst} resolves to base = "hi",
\* greet = "hi!", and the single provider {a, b, c, c_meta: crossappendref}
\* resolves c to ["1", "2", "3"].
C9_OwnProviderSettings ==
    /\ (pc \in {"done", "failed"} /\ configs = <<PGreet>>)
         => /\ pc = "done"
            /\ DictEq(result.d, MkDict(<< <<"base", StrV("hi")>>, <<"greet", StrV("hi!")>> >>))
    /\ (pc \in {"done", "failed"} /\ configs = <<PCrossAppendRef>>)
         => /\ pc = "done"
            /\ Has(result.d, "c")
            /\ View(Get(result.d, "c")) = StrList(<<"1", "2", "3">>)

\* C10: eager append across providers.  After a provider that holds the list
\* v for k with k_meta = append is folded, the working value of k is the
\* value k had before the provider was folded followed by the elements of v
\* (v alone when k was absent).
C10_AppendAcrossProviders ==
    (pc = "fold" /\ pos > 1) =>
      \A k \in DOMAIN configs[pos - 1].m :
        ( /\ Has(configs[pos - 1], k \o "_meta")
          /\ Get(configs[pos - 1], k \o "_meta") = StrV("append")
          /\ IsList(Get(configs[pos - 1], k)) )
        => /\ Has(work, k)
           /\ View(Get(work, k)) =
                View(ListV((IF Has(prev, k) THEN Get(prev, k).l ELSE <<>>) \o Get(configs[pos - 1], k).l))

\* The provider at position i holds the directive mt (a single name) on k,
\* and no later provider mentions k or k_meta.
LastDirectiveOn(i, k, mt) ==
    /\ Has(configs[i], k)
    /\ Has(configs[i], k \o "_meta")
    /\ Get(configs[i], k \o "_meta") = StrV(mt)
    /\ \A j \in (i + 1)..Len(configs) : ~Has(configs[j], k) /\ ~Has(configs[j], k \o "_meta")

\* C11: prependlocal, eager or lazy.  When resolution succeeds, a setting
\* whose last directive is prependlocal or lazyprependlocal, contributed by a
\* provider that carries _config_path, resolves to the join of that
\* provider's _config_path with the string form of the provider's value.
C11_PrependLocalPath ==
    pc = "done" =>
      \A i \in 1..Len(configs) : \A k \in DOMAIN configs[i].m :
        ( /\ \/ LastDirectiveOn(i, k, "prependlocal")
             \/ LastDirectiveOn(i, k, "lazyprependlocal")
          /\ Has(configs[i], _CONFIG_PATH_KEY)
          /\ IsStr(Get(configs[i], _CONFIG_PATH_KEY)) )
        => /\ Has(result.d, k)
           /\ Get(result.d, k) =
                StrV(PathJoin(Get(configs[i], _CONFIG_PATH_KEY).s, PyStr(Get(configs[i], k))))

\* sub occurs in s
Contains(s, sub) ==
    \E i \in 1..(Len(s) - Len(sub) + 1) : SubSeq(s, i, i + Len(sub) - 1) = sub

\* The directive names of a k_meta value: the name itself, or the elements.
DirectiveNames(v) == IF IsStr(v) THEN <<v>> ELSE IF IsList(v) THEN v.l ELSE <<>>

HasDynamic(v) ==
    \E i \in 1..Len(DirectiveNames(v)) :
        IsStr(DirectiveNames(v)[i]) /\ StartsWith(DirectiveNames(v)[i].s, "dynamic")

\* C12: the dynamic prefix is rejected.  When a provider's k_meta is, or
\* holds as an element, a name that starts with "dynamic", resolution ends
\* with an invalid-directive error whose message names k_meta's key and
\* tells the user to rename to lazy; it never ends with a mapping.
C12_DynamicRejected ==
    pc \in {"done", "failed"} =>
      \A i \in 1..Len(configs) : \A mk \in DOMAIN configs[i].m :
        (EndsWith(mk, "_meta") /\ HasDynamic(Get(configs[i], mk)))
        => /\ pc = "failed"
           /\ result.err = "invalid-directive"
           /\ Contains(result.msg, DropSuffix(mk, 5))
           /\ Contains(result.msg, "lazy")

IsLazyName(x) == IsStr(x) /\ StartsWith(x.s, "lazy")

\* A directive list with a lazy directive that is not its last element: two
\* or more lazy directives, or an eager directive after a lazy one.
MisplacedLazy(v) == IsList(v) /\ \E j \in 1..(Len(v.l) - 1) : IsLazyName(v.l[j])

\* A directive list of known eager directives followed by one lazy directive.
EagerThenLazy(v) ==
    /\ IsList(v)
    /\ Len(v.l) >= 2
    /\ IsLazyName(v.l[Len(v.l)])
    /\ DropPrefix(v.l[Len(v.l)].s, 4) \in Directives
    /\ \A j \in 1..(Len(v.l) - 1) : IsStr(v.l[j]) /\ v.l[j].s \in Directives

\* The value of k after the eager directives names[j..] are applied in order
\* to the dict d folded so far, starting from the provider's value v.
RECURSIVE EagerValue(_, _, _, _, _, _)
EagerValue(d, k, v, names, j, path) ==
    IF j > Len(names) THEN v
    ELSE With(DirectiveAction(names[j].s, d, k, v, path), LAMBDA r :
         IF r.ok THEN EagerValue(r.d, k, Get(r.d, k), names, j + 1, path) ELSE v)

\* C13: directive lists obey the lazy rules.  A provider whose k_meta list
\* has a lazy directive before its last element is never folded: folding it
\* fails with invalid-directive.  A provider whose k_meta list is eager
\* directives followed by one lazy directive is not refused as an invalid
\* directive; once it is folded, k holds the provider's value with the eager
\* directives applied and k_meta holds the lazy directive, which is deferred.
C13_DirectiveLists ==
    \A i \in 1..Len(configs) : \A mk \in DOMAIN configs[i].m :
      EndsWith(mk, "_meta") =>
        /\ MisplacedLazy(Get(configs[i], mk)) =>
             /\ ~(pc = "fold" /\ pos > i)
             /\ pc \notin {"lazy", "done"}
             /\ (pc = "failed" /\ pos = i) => result.err = "invalid-directive"
        /\ (EagerThenLazy(Get(configs[i], mk)) /\ Has(configs[i], DropSuffix(mk, 5))) =>
             /\ (pc = "failed" /\ pos = i) => result.err # "invalid-directive"
             /\ (pc = "fold" /\ pos = i + 1) =>
                  /\ Has(work, mk)
                  /\ Get(work, mk) = Get(configs[i], mk).l[Len(Get(configs[i], mk).l)]
                  /\ Has(work, DropSuffix(mk, 5))
                  /\ View(Get(work, DropSuffix(mk, 5))) =
                       View(EagerValue(prev, DropSuffix(mk, 5), Get(configs[i], DropSuffix(mk, 5)),
                                       SubSeq(Get(configs[i], mk).l, 1, Len(Get(configs[i], mk).l) - 1), 1,
                                       IF Has(configs[i], _CONFIG_PATH_KEY)
                                       THEN Get(configs[i], _CONFIG_PATH_KEY) ELSE StrV("unspecified")))

\* A list of one eager and one lazy directive was folded in and its lazy
\* directive was evaluated at the end.
C13_Witness ==
    /\ pc = "done"
    /\ configs = <<PBase, PEagerThenLazy>>
    /\ View(Get(result.d, "k")) = StrList(<<"v1">>)

\* A list with an eager directive after a lazy one was refused.
C13_WitnessRefused ==
    /\ pc = "failed"
    /\ configs = <<PBase, PEagerAfterLazy>>
    /\ result.err = "invalid-directive"

Reads == {"get_config", "get_database_json", "get_setting", "has_setting"}

\* The last call was a read during which the resolution raised.
ResolutionFailed(r) == r.op \in Reads /\ ~r.ok /\ r.err # "missing-key"

\* C14: a failed resolution leaves the database consistent.  A read during
\* which the resolution raises changes neither the layers, nor the runtime
\* dict, nor the stored cache, and the dirty flag is set before and after
\* it; so after a failed read the flag is set and the next read resolves
\* the then-current layers again instead of returning the stored cache.
C14_FailedReadKeepsState ==
    /\ [](ResolutionFailed(ret) => config_cache_dirty)
    /\ [][ResolutionFailed(ret') =>
            /\ UNCHANGED <<builtins, core, tools, technology, environment, project, _runtime, config_cache>>
            /\ config_cache_dirty
            /\ config_cache_dirty']_vars

\* A read failed while a mapping resolved earlier is still stored.
C14_Witness ==
    /\ ResolutionFailed(ret)
    /\ config_cache # EmptyDict
    /\ config_cache_dirty

C16_GetAndHasAgree ==
    /\ []((ret.op = "has_setting" /\ ret.ok) =>
            (~config_cache_dirty /\ ret.has = Has(config_cache, ret.key)))
    /\ [][\A k \in ReadKeys, s \in NullValues :
            (ret'.op = "get_setting" /\ ret'.key = k /\ ~ResolutionFailed(ret') /\ get_setting(k, s)) =>
               /\ ~config_cache_dirty'
               /\ ret'.ok <=> Has(config_cache', k)
               /\ ~ret'.ok => ret'.err = "missing-key"
               /\ (Has(config_cache', k) /\ IsNull(Get(config_cache', k))) => ret'.val = s
               /\ (Has(config_cache', k) /\ ~IsNull(Get(config_cache', k))) =>
                      ret'.val = Get(config_cache', k)]_vars

\* get_setting returned the caller's sentinel for a setting that is null.
C16_Witness ==
    /\ ret.op = "get_setting"
    /\ ret.ok
    /\ ~config_cache_dirty
    /\ Has(config_cache, ret.key)
    /\ IsNull(Get(config_cache, ret.key))
    /\ ret.val = StrV("dflt")

\* Python's == on values with dicts inside: dicts are equal when they have
\* the same keys with equal values, whatever the order.
RECURSIVE DeepView(_)
DeepView(v) ==
    IF IsDict(v) THEN [t |-> "dict", m |-> [k \in {v.l[i].k : i \in 1..Len(v.l)} |-> DeepView(Get(AsDict(v), k))]]
    ELSE [t |-> "leaf", m |-> View(v)]

\* The nested mapping v has, at any depth, no blank key, no key with a dot
\* and no empty sub-mapping.
RECURSIVE PlainNested(_)
PlainNested(v) ==
    IsDict(v) => \A i \in 1..Len(v.l) :
                    /\ v.l[i].k # ""
                    /\ ~Contains(v.l[i].k, ".")
                    /\ IsDict(v.l[i].v) => (v.l[i].v.l # <<>> /\ PlainNested(v.l[i].v))

\* C17 as stated: flatten/unflatten round trip.  For every nested mapping x
\* with non-blank keys, keys with a dot and empty sub-mappings included,
\* reverse_unpack(unpack(x)) returns a mapping equal to x.
C17_RoundTrip ==
    (pc \in {"packed", "failed"} /\ configs[1] \in NestedInputs) =>
       /\ pc = "packed"
       /\ DeepView(DictVal(result.d)) = DeepView(DictVal(configs[1]))

\* C17, amended: the round trip holds for every nested mapping whose keys
\* are non-blank and hold no dot and whose sub-mappings are not empty.
C17_RoundTripNoDots ==
    ( /\ pc \in {"packed", "failed"}
      /\ configs[1] \in NestedInputs
      /\ PlainNested(DictVal(configs[1])) ) =>
       /\ pc = "packed"
       /\ DeepView(DictVal(result.d)) = DeepView(DictVal(configs[1]))

\* A mapping with a sub-mapping of two keys next to a plain key went
\* through unpack and reverse_unpack.
C17_Witness ==
    /\ pc = "packed"
    /\ configs[1] \in NestedInputs
    /\ PlainNested(DictVal(configs[1]))
    /\ Has(configs[1], "a")
    /\ IsDict(Get(configs[1], "a"))
    /\ Len(Get(configs[1], "a").l) = 2
    /\ Has(configs[1], "b")
    /\ Has(work, "a.c")

\* A key of the flat mapping d is blank or has an empty dotted segment.
HasBlankSegment(d) ==
    \E k \in DOMAIN d.m : \E i \in 1..Len(SplitDots(k, 1, "")) : SplitDots(k, 1, "")[i] = ""

\* C18: reverse_unpack fails with a blank-key error on every flat mapping
\* that has a blank key or a key with an empty dotted segment.
C18_BlankKeyRejected ==
    (pc \in {"packed", "failed"} /\ configs[1] \in FlatInputs /\ HasBlankSegment(configs[1])) =>
       /\ pc = "failed"
       /\ result.err = "blank-key"

\* C19: reads return isolated snapshots.  Whatever a caller did with the
\* objects earlier reads returned, a successful get_config returns the
\* resolution of the layers as they are, and a successful get_setting the
\* value that resolution gives the key.
C19_ReadsIsolated ==
    (ret.op \in {"get_config", "get_setting"} /\ ret.ok) =>
       With(combine_configs(AllConfigs), LAMBDA res :
            /\ res.ok
            /\ ret.op = "get_config" => DictEq(ret.dict, res.d)
            /\ (ret.op = "get_setting" /\ Has(res.d, ret.key) /\ ~IsNull(Get(res.d, ret.key))) =>
                   View(ret.val) = View(Get(res.d, ret.key)))

\* C20: a directive key k_meta is accepted when its setting k is in the same
\* provider or only in a provider folded before it.  When folding the
\* provider at position pos fails, it is not for lack of a setting k whose
\* k_meta the provider holds while k is in the provider or in the dict
\* folded from the providers before it.
C20_MetaKeyAccepted ==
    (pc = "failed" /\ settings_ordered = <<>> /\ pos <= Len(configs)) =>
       \A mk \in DOMAIN configs[pos].m :
          ( /\ EndsWith(mk, "_meta")
            /\ \/ Has(configs[pos], DropSuffix(mk, 5))
               \/ Has(work, DropSuffix(mk, 5)) )
          => ~(result.err = "key-error" /\ result.msg = DropSuffix(mk, 5))

\* C21: rename rewrites exactly the references to the renamed setting.  When
\* rename_target has returned a value and a directive name, the targets of
\* that directive on that value are the targets of the original directive on
\* the original value with every occurrence of the renamed setting replaced
\* by the replacement, all others kept.
C21_RenameRewritesTargets ==
    pc = "renamed" =>
       LET before == DirectiveTargets(RenameMeta, RenameKey, RenameValue)
           after == DirectiveTargets(result.meta, RenameKey, result.value)
       IN /\ before.ok
          /\ after.ok
          /\ after.names = [i \in 1..Len(before.names) |->
                              IF before.names[i] = settings_ordered[2] THEN settings_ordered[3]
                              ELSE before.names[i]]

\* C27: rename preserves the directive's result.  When the replacement
\* setting holds what the renamed setting held and the original directive
\* succeeds on the original dictionary, the renamed directive succeeds too
\* and gives the setting the same value, of the same shape.
C27_RenamePreservesResult ==
    pc \in {"applied", "renamed-failed"} =>
       /\ pc = "applied"
       /\ View(Get(work, RenameKey)) = View(Get(prev, RenameKey))

\* The meta keys of a provider whose directive is a single lazy one that
\* names its own setting among its targets, in the provider's order.
SelfLazyKeys(provider) ==
    SelectSeq(provider.ks, LAMBDA mk :
        /\ EndsWith(mk, "_meta")
        /\ IsStr(Get(provider, mk))
        /\ StartsWith(Get(provider, mk).s, "lazy")
        /\ DropPrefix(Get(provider, mk).s, 4) \in Directives
        /\ Has(provider, DropSuffix(mk, 5))
        /\ LET t == DirectiveTargets(DropPrefix(Get(provider, mk).s, 4), DropSuffix(mk, 5),
                                     Get(provider, DropSuffix(mk, 5)))
           IN t.ok /\ InSeq(DropSuffix(mk, 5), t.names))

\* C22: the alias of self-reference renaming is fresh.  When a provider
\* whose first self-referential lazy setting is k has been folded, the
\* alias k_N chosen for it (N the next free index of the dictionary before
\* the fold) was not a key of that dictionary, and the next free index of
\* the dictionary after the fold is larger than N.
C22_AliasFresh ==
    (pc = "fold" /\ pos > 1 /\ SelfLazyKeys(configs[pos - 1]) # <<>>) =>
       LET k == DropSuffix(SelfLazyKeys(configs[pos - 1])[1], 5)
           idx == get_next_free_index(prev)
       IN Has(prev, k) =>
             /\ idx.ok
             /\ ~Has(prev, k \o "_" \o PyStrInt(idx.v.n))
             /\ Has(work, k \o "_" \o PyStrInt(idx.v.n))
             /\ Has(work, _NEXT_FREE_INDEX_KEY)
             /\ Get(work, _NEXT_FREE_INDEX_KEY).n > idx.v.n

\* Every object of the caller that the dictionary d refers to has the
\* contents it has in the providers the caller passed.
CallerObjectsKept(d) ==
    \A k \in DOMAIN d.m :
       d.m[k].id >= CallerIds =>
          \A i \in 1..Len(configs) : \A j \in DOMAIN configs[i].m :
             configs[i].m[j].id = d.m[k].id => configs[i].m[j] = d.m[k]

\* C23: resolution never mutates its inputs.  At every step of
\* combine_configs, and when it has returned or raised, each list object of
\* the providers passed in has the contents it had at the call: no
\* dictionary the resolution works on holds such an object with other
\* contents.
C23_InputsNotMutated ==
    /\ CallerObjectsKept(work)
    /\ CallerObjectsKept(prev)
    /\ CallerObjectsKept(lazy_metas)
    /\ CallerObjectsKept(result.d)

\* A resolution has returned a list for a that differs from the list the
\* first provider holds for a, after an append from a later provider.
C23_Witness ==
    /\ pc = "done"
    /\ configs[1] = POwnedBase
    /\ \E i \in 2..Len(configs) : configs[i] = POwnedAppend
    /\ View(Get(result.d, "a")) # View(Get(configs[1], "a"))
    /\ Get(configs[1], "a").l = <<StrV("1")>>

\* C24: a mutator changes only what it names.  Each update of a file layer
\* leaves that layer equal to the list given, whatever it held, and leaves
\* the five other file layers and the runtime dictionary as they were;
\* set_setting(k, v) leaves the six file layers as they were and changes
\* the runtime dictionary at key k only, which then holds v.
C24_MutatorFrame ==
    [][ /\ \A l \in BuiltinsInputs : update_builtins(l) =>
              (builtins' = l /\ UNCHANGED <<core, tools, technology, environment, project, _runtime>>)
        /\ \A l \in CoreInputs : update_core(l) =>
              (core' = l /\ UNCHANGED <<builtins, tools, technology, environment, project, _runtime>>)
        /\ \A l \in ToolsInputs : update_tools(l) =>
              (tools' = l /\ UNCHANGED <<builtins, core, technology, environment, project, _runtime>>)
        /\ \A l \in TechnologyInputs : update_technology(l) =>
              (technology' = l /\ UNCHANGED <<builtins, core, tools, environment, project, _runtime>>)
        /\ \A l \in EnvironmentInputs : update_environment(l) =>
              (environment' = l /\ UNCHANGED <<builtins, core, tools, technology, project, _runtime>>)
        /\ \A l \in ProjectInputs : update_project(l) =>
              (project' = l /\ UNCHANGED <<builtins, core, tools, technology, environment, _runtime>>)
        /\ \A k \in SetKeys, v \in SetValues : set_setting(k, v) =>
              /\ UNCHANGED <<builtins, core, tools, technology, environment, project>>
              /\ Has(_runtime', k) /\ Get(_runtime', k) = v
              /\ \A j \in DOMAIN _runtime.m : j # k => (Has(_runtime', j) /\ Get(_runtime', j) = Get(_runtime, j))
              /\ \A j \in DOMAIN _runtime'.m : j # k => Has(_runtime, j)
      ]_vars

\* The project layer has been replaced after a runtime setting was written
\* and the core layer was set: both are still there.
C24_Witness ==
    /\ calls = 3
    /\ ret.op = "update_project"
    /\ project = <<PLazyK>>
    /\ Has(_runtime, "k")
    /\ core = <<PCrossK>>

\* A directive list of two or more known eager directives.
EagerList(v) ==
    /\ IsList(v)
    /\ Len(v.l) >= 2
    /\ \A j \in 1..Len(v.l) : IsStr(v.l[j]) /\ v.l[j].s \in Directives

\* The value of k after the directives names[j..] are applied one after the
\* other, each to the dict and to the value of k the one before it left.
RECURSIVE RunningValue(_, _, _, _, _)
RunningValue(d, k, v, names, j) ==
    IF j > Len(names) THEN v
    ELSE With(DirectiveAction(names[j].s, d, k, v, StrV("unspecified")), LAMBDA r :
         IF r.ok THEN RunningValue(r.d, k, Get(r.d, k), names, j + 1) ELSE NoneV)

\* C25: a list of eager directives is applied left to right on the running
\* value.  When a provider whose only directive key k_meta is a list of
\* eager directives has been folded, k holds the result of the last
\* directive, each directive having been given the value of k the one
\* before it produced and the first one the provider's value.
C25_RunningValue ==
    (pc = "fold" /\ pos > 1) =>
       \A mk \in DOMAIN configs[pos - 1].m :
          ( /\ EndsWith(mk, "_meta")
            /\ EagerList(Get(configs[pos - 1], mk))
            /\ Has(configs[pos - 1], DropSuffix(mk, 5))
            /\ ~Has(configs[pos - 1], _CONFIG_PATH_KEY)
            /\ \A other \in DOMAIN configs[pos - 1].m : EndsWith(other, "_meta") => other = mk )
          => /\ Has(work, DropSuffix(mk, 5))
             /\ View(Get(work, DropSuffix(mk, 5))) =
                  View(RunningValue(prev, DropSuffix(mk, 5), Get(configs[pos - 1], DropSuffix(mk, 5)),
                                    Get(configs[pos - 1], mk).l, 1))

\* Two substitutions in a row: the second one expanded what the first one
\* produced, which the provider's own value does not contain.
C25_Witness ==
    /\ pc = "done"
    /\ configs = <<POwnedBase, PSubstTwice>>
    /\ Get(result.d, "k") = StrV("v1")
    /\ subst_action(result.d, "k", Get(configs[2], "k")).d.m["k"] = StrV("${n}")

\* C26: lazy completeness.  When combine_configs has returned, every setting
\* that carried a lazy directive after the eager fold stands exactly once in
\* the evaluation order and is a key of the returned mapping.
C26_LazyComplete ==
    pc = "done" =>
       \A mk \in DOMAIN expanded_config_orig.m :
          EndsWith(mk, "_meta") =>
             /\ Cardinality({i \in 1..Len(settings_ordered) : settings_ordered[i] = DropSuffix(mk, 5)}) = 1
             /\ Has(result.d, DropSuffix(mk, 5))

\* Every directive key of the provider holds eager directives only.
OnlyEager(provider) ==
    \A mk \in DOMAIN provider.m :
       EndsWith(mk, "_meta") =>
          \/ IsStr(Get(provider, mk)) /\ Get(provider, mk).s \in Directives
          \/ EagerList(Get(provider, mk))

\* C29: an eager directive on k changes only k.  When a provider with eager
\* directives only has been folded, every key the working dictionary had
\* before that is neither a key of the provider nor a reserved key is still
\* there and has the value it had.
C29_EagerFrame ==
    (pc = "fold" /\ pos > 1 /\ OnlyEager(configs[pos - 1])) =>
       \A x \in DOMAIN prev.m :
          ( /\ ~Has(configs[pos - 1], x)
            /\ ~InSeq(x, internal_keys) )
          => /\ Has(work, x)
             /\ View(Get(work, x)) = View(Get(prev, x))

\* C30: the resolved mapping holds contributed settings only.  When
\* combine_configs has returned, every key of the returned mapping is a key
\* of one of the providers, does not end in _meta and is not reserved.
C30_OnlyContributedKeys ==
    pc = "done" =>
       \A x \in DOMAIN result.d.m :
          /\ \E i \in 1..Len(configs) : Has(configs[i], x)
          /\ ~EndsWith(x, "_meta")
          /\ ~InSeq(x, internal_keys)

\* C28: the resolved mapping does not depend on the order among independent
\* lazy settings.  A resolution that evaluates the lazy settings in any
\* order in which every setting comes after the lazy settings it depends on
\* ends as combine_configs does: it returns exactly when combine_configs
\* returns, and then with the same mapping.
C28_OrderIndependent ==
    pc \in {"done", "failed"} =>
       With(combine_configs(configs), LAMBDA c :
          /\ c.ok <=> pc = "done"
          /\ c.ok => DictEq(result.d, c.d))

\* Three lazy settings that do not depend on one another were evaluated
\* with w, the last of combine_configs' order, first.
C28_Witness ==
    /\ pc = "lazy"
    /\ configs = <<PBase, PLazyPair, PLazyK>>
    /\ settings_ordered = <<"k", "u">>
    /\ Get(work, "w") = StrV("v1?")
====
